---- MODULE Spec2Model ----
(***************************************************************************)
(* A model of the lcapy one-port / two-port network algebra                *)
(* (src/lcapy/oneport.py, src/lcapy/twoport.py).                           *)
(*                                                                         *)
(* Symbolic expressions in the Laplace variable s are modelled by their    *)
(* exact rational value at an evaluation point s drawn from SPoints, so    *)
(* that an identity between expressions is checked as an identity between  *)
(* rationals at every chosen point.  A rational is a pair <<n, d>> in      *)
(* lowest terms with d >= 0; <<1, 0>> is sympy's zoo (x/0) and <<0, 0>> is *)
(* sympy's nan (0/0).                                                      *)
(***************************************************************************)
EXTENDS Integers, Sequences, FiniteSets, TLC

VARIABLES
    pc,        \* position of the session: which call was made last
    s,         \* the value of the Laplace variable at which expressions are read
    mat0,      \* matrix spec: the native matrix the conversions start from
    mat,       \* matrix spec: the matrix returned by the last conversion
    path,      \* matrix spec: the kinds converted to so far, in order
    warned,    \* a degeneracy / construction warning was emitted
    divzero,   \* some conversion formula divided by a zero entry or determinant
    opA,       \* one-port session: first operand
    opB,       \* one-port session: second operand
    call,      \* one-port session: the composite constructor called, if any
    net,       \* one-port session: the composite the constructor returned
    simp,      \* one-port session: what net.simplify() returned
    view,      \* one-port session: the properties Z, Y, Voc, Isc read from opA
    tpA,       \* two-port session: the two-port the method is called on
    operand,   \* two-port session: the argument, a two-port or a one-port
    port,      \* two-port session: the port argument of short / open circuit
    tp,        \* two-port session: the two-port a constructor returned
    argv       \* two-port session: the arguments of the last constructor call

vars == <<pc, s, mat0, mat, path, warned, divzero, opA, opB, call, net, simp,
          view, tpA, operand, port, tp, argv>>

(***************************************************************************)
(* Bounds                                                                  *)
(***************************************************************************)
MaxVal == 2        \* matrix entries range over -1 .. MaxVal
MaxPath == 2       \* a matrix is converted at most MaxPath times in a row
MaxParam == 2      \* component values range over 1 .. MaxParam, initial
                   \* conditions and source values over 0 .. MaxParam
MaxS == 3          \* s is read at the points 2 .. MaxS

(***************************************************************************)
(* Expression arithmetic (the sympy-backed expression kind)                *)
(***************************************************************************)
Abs(x) == IF x < 0 THEN -x ELSE x

RECURSIVE GCD(_, _)
GCD(a, b) == IF b = 0 THEN a ELSE GCD(b, a % b)

Norm(n, d) ==
    IF d = 0 THEN (IF n = 0 THEN <<0, 0>> ELSE <<1, 0>>)
    ELSE LET g == GCD(Abs(n), Abs(d))
             sg == IF d < 0 THEN -1 ELSE 1
         IN <<sg * (n \div g), sg * (d \div g)>>

Q(n) == <<n, 1>>
Zero == Q(0)
One == Q(1)
zoo == <<1, 0>>
nan == <<0, 0>>

IsFinite(x) == x[2] # 0

RAdd(x, y) == Norm(x[1] * y[2] + y[1] * x[2], x[2] * y[2])
RNeg(x) == <<-x[1], x[2]>>
RSub(x, y) == RAdd(x, RNeg(y))
RMul(x, y) == Norm(x[1] * y[1], x[2] * y[2])
RDiv(x, y) == Norm(x[1] * y[2], x[2] * y[1])

(***************************************************************************)
(* 2x2 matrices: [k |-> kind, e |-> <<m11, m12, m21, m22>>]                 *)
(***************************************************************************)
Kinds == {"A", "B", "G", "H", "Y", "Z"}

Mat(k, a, b, c, d) == [k |-> k, e |-> <<a, b, c, d>>]
NoMatrix == [k |-> "none", e |-> <<nan, nan, nan, nan>>]

det(m) == RSub(RMul(m.e[1], m.e[4]), RMul(m.e[2], m.e[3]))

\* matrix product, entries of the left operand's rows by the right one's columns
MatMul(x, y) ==
    Mat(x.k,
        RAdd(RMul(x.e[1], y.e[1]), RMul(x.e[2], y.e[3])),
        RAdd(RMul(x.e[1], y.e[2]), RMul(x.e[2], y.e[4])),
        RAdd(RMul(x.e[3], y.e[1]), RMul(x.e[4], y.e[3])),
        RAdd(RMul(x.e[3], y.e[2]), RMul(x.e[4], y.e[4])))

MatAdd(x, y) ==
    Mat(x.k, RAdd(x.e[1], y.e[1]), RAdd(x.e[2], y.e[2]),
             RAdd(x.e[3], y.e[3]), RAdd(x.e[4], y.e[4]))

\* matrix times column vector <<v1, v2>>
MatVec(x, v) ==
    <<RAdd(RMul(x.e[1], v[1]), RMul(x.e[2], v[2])),
      RAdd(RMul(x.e[3], v[1]), RMul(x.e[4], v[2]))>>

VecAdd(v, w) == <<RAdd(v[1], w[1]), RAdd(v[2], w[2])>>

\* The result of a conversion: the matrix, whether warn() was called, whether
\* an exception was raised, and whether a formula divided by zero.
Res(m, w, dz) == [M |-> m, warn |-> w, raised |-> FALSE, dz |-> dz]
Raise == [M |-> NoMatrix, warn |-> FALSE, raised |-> TRUE, dz |-> TRUE]

\* sympy Matrix.inv(): raises on a singular matrix
inv(m, k) ==
    LET dt == det(m) IN
    IF dt = Zero THEN Raise
    ELSE Res(Mat(k, RDiv(m.e[4], dt), RDiv(RNeg(m.e[2]), dt),
                    RDiv(RNeg(m.e[3]), dt), RDiv(m.e[1], dt)), FALSE, FALSE)

\* apply conversion f to the matrix of an earlier result, keeping its effects
Then(r, f(_)) ==
    IF r.raised THEN r
    ELSE LET q == f(r.M) IN
         [M |-> q.M, warn |-> r.warn \/ q.warn, raised |-> q.raised,
          dz |-> r.dz \/ q.dz]

(***************************************************************************)
(* The conversion graph between the six matrix kinds.  E11..E22 read the   *)
(* entries of the matrix a formula is applied to.                          *)
(***************************************************************************)
E11(m) == m.e[1]
E12(m) == m.e[2]
E21(m) == m.e[3]
E22(m) == m.e[4]

Same(m) == Res(m, FALSE, FALSE)

AMatrix_B(m) ==
    LET dt == det(m) IN
    Res(Mat("B", RDiv(E22(m), dt), RDiv(RNeg(E12(m)), dt),
                 RDiv(RNeg(E21(m)), dt), RDiv(E11(m), dt)),
        dt = Zero, dt = Zero)

AMatrix_H(m) ==
    Res(Mat("H", RDiv(E12(m), E22(m)), RDiv(det(m), E22(m)),
                 RDiv(RNeg(One), E22(m)), RDiv(E21(m), E22(m))),
        E22(m) = Zero, E22(m) = Zero)

AMatrix_Y(m) ==
    Res(Mat("Y", RDiv(E22(m), E12(m)), RDiv(RNeg(det(m)), E12(m)),
                 RDiv(RNeg(One), E12(m)), RDiv(E11(m), E12(m))),
        E12(m) = Zero, E12(m) = Zero)

\* a Z conversion that divides by A21 without calling warn()
AMatrix_Z_Silent(m) ==
    Res(Mat("Z", RDiv(E11(m), E21(m)), RDiv(det(m), E21(m)),
                 RDiv(One, E21(m)), RDiv(E22(m), E21(m))),
        FALSE, E21(m) = Zero)

AMatrix_Z(m) ==
    Res(Mat("Z", RDiv(E11(m), E21(m)), RDiv(det(m), E21(m)),
                 RDiv(One, E21(m)), RDiv(E22(m), E21(m))),
        E21(m) = Zero, E21(m) = Zero)

\* AMatrix.Zseries(Zval)
AMatrix_Zseries(Zval) == Mat("A", One, Zval, Zero, One)

BMatrix_A(m) ==
    LET dt == det(m) IN
    Res(Mat("A", RDiv(E22(m), dt), RDiv(RNeg(E12(m)), dt),
                 RDiv(RNeg(E21(m)), dt), RDiv(E11(m), dt)),
        FALSE, dt = Zero)

BMatrix_G(m) ==
    Res(Mat("G", RDiv(RNeg(E21(m)), E22(m)), RDiv(RNeg(One), E22(m)),
                 RDiv(det(m), E22(m)), RDiv(RNeg(E12(m)), E22(m))),
        FALSE, E22(m) = Zero)

BMatrix_H(m) ==
    Res(Mat("H", RDiv(RNeg(E12(m)), E11(m)), RDiv(One, E11(m)),
                 RDiv(RNeg(det(m)), E11(m)), RDiv(RNeg(E21(m)), E11(m))),
        FALSE, E11(m) = Zero)

BMatrix_Y(m) ==
    Res(Mat("Y", RDiv(RNeg(E11(m)), E12(m)), RDiv(One, E12(m)),
                 RDiv(det(m), E12(m)), RDiv(RNeg(E22(m)), E12(m))),
        FALSE, E12(m) = Zero)

BMatrix_Z(m) ==
    Res(Mat("Z", RDiv(RNeg(E22(m)), E21(m)), RDiv(RNeg(One), E21(m)),
                 RDiv(RNeg(det(m)), E21(m)), RDiv(RNeg(E11(m)), E21(m))),
        FALSE, E21(m) = Zero)

GMatrix_A(m) ==
    Res(Mat("A", RDiv(One, E21(m)), RDiv(E22(m), E21(m)),
                 RDiv(E11(m), E21(m)), RDiv(det(m), E21(m))),
        FALSE, E21(m) = Zero)

GMatrix_B(m) ==
    Res(Mat("B", RDiv(RNeg(det(m)), E12(m)), RDiv(E22(m), E12(m)),
                 RDiv(E11(m), E12(m)), RDiv(RNeg(One), E12(m))),
        FALSE, E12(m) = Zero)

GMatrix_H(m) == inv(m, "H")

HMatrix_A(m) ==
    Res(Mat("A", RDiv(RNeg(det(m)), E21(m)), RDiv(RNeg(E11(m)), E21(m)),
                 RDiv(RNeg(E22(m)), E21(m)), RDiv(RNeg(One), E21(m))),
        FALSE, E21(m) = Zero)

\* the H to B formulas with the determinant entry negated
HMatrix_B_NegDet(m) ==
    Res(Mat("B", RDiv(One, E12(m)), RDiv(RNeg(E11(m)), E12(m)),
                 RDiv(RNeg(E22(m)), E12(m)), RDiv(RNeg(det(m)), E12(m))),
        FALSE, E12(m) = Zero)

HMatrix_B(m) ==
    Res(Mat("B", RDiv(One, E12(m)), RDiv(RNeg(E11(m)), E12(m)),
                 RDiv(RNeg(E22(m)), E12(m)), RDiv(det(m), E12(m))),
        FALSE, E12(m) = Zero)

HMatrix_Y(m) ==
    Res(Mat("Y", RDiv(One, E11(m)), RDiv(RNeg(E12(m)), E11(m)),
                 RDiv(E21(m), E11(m)), RDiv(det(m), E11(m))),
        FALSE, E11(m) = Zero)

HMatrix_Z(m) ==
    Res(Mat("Z", RDiv(det(m), E22(m)), RDiv(E12(m), E22(m)),
                 RDiv(RNeg(E21(m)), E22(m)), RDiv(One, E22(m))),
        FALSE, E22(m) = Zero)

GMatrix_Y(m) == Then(GMatrix_H(m), HMatrix_Y)

GMatrix_Z(m) == Then(GMatrix_H(m), HMatrix_Z)

YMatrix_A(m) ==
    Res(Mat("A", RDiv(RNeg(E22(m)), E21(m)), RDiv(RNeg(One), E21(m)),
                 RDiv(RNeg(det(m)), E21(m)), RDiv(RNeg(E11(m)), E21(m))),
        FALSE, E21(m) = Zero)

YMatrix_B(m) ==
    Res(Mat("B", RDiv(RNeg(E11(m)), E12(m)), RDiv(One, E12(m)),
                 RDiv(det(m), E12(m)), RDiv(RNeg(E22(m)), E12(m))),
        FALSE, E12(m) = Zero)

YMatrix_H(m) ==
    Res(Mat("H", RDiv(One, E11(m)), RDiv(RNeg(E12(m)), E11(m)),
                 RDiv(E21(m), E11(m)), RDiv(det(m), E11(m))),
        FALSE, E11(m) = Zero)

YMatrix_Z(m) ==
    LET dt == det(m) IN
    Res(Mat("Z", RDiv(E22(m), dt), RDiv(RNeg(E12(m)), dt),
                 RDiv(RNeg(E21(m)), dt), RDiv(E11(m), dt)),
        FALSE, dt = Zero)

ZMatrix_A(m) ==
    Res(Mat("A", RDiv(E11(m), E21(m)), RDiv(det(m), E21(m)),
                 RDiv(One, E21(m)), RDiv(E22(m), E21(m))),
        FALSE, E21(m) = Zero)

ZMatrix_B(m) ==
    Res(Mat("B", RDiv(E22(m), E12(m)), RDiv(RNeg(det(m)), E12(m)),
                 RDiv(RNeg(One), E12(m)), RDiv(E11(m), E12(m))),
        FALSE, E12(m) = Zero)

ZMatrix_H(m) ==
    Res(Mat("H", RDiv(det(m), E22(m)), RDiv(E12(m), E22(m)),
                 RDiv(RNeg(E21(m)), E22(m)), RDiv(One, E22(m))),
        FALSE, E22(m) = Zero)

ZMatrix_Y(m) ==
    LET dt == det(m) IN
    Res(Mat("Y", RDiv(E22(m), dt), RDiv(RNeg(E12(m)), dt),
                 RDiv(RNeg(E21(m)), dt), RDiv(E11(m), dt)),
        FALSE, dt = Zero)

\* TwoPortMatrix.H of a kind that defines none: HMatrix(self.G.inv()); only a
\* GMatrix reaches it, and GMatrix defines H itself.
\* TwoPortMatrix.G, the fallback of every kind but B and G: GMatrix(self.H.inv())
InvH(m) == inv(m, "G")

TwoPortMatrix_G(m) ==
    CASE m.k = "A" -> Then(AMatrix_H(m), InvH)
      [] m.k = "H" -> InvH(m)
      [] m.k = "Y" -> Then(YMatrix_H(m), InvH)
      [] m.k = "Z" -> Then(ZMatrix_H(m), InvH)

\* m.K for a matrix m of any kind and K in Kinds
Convert(m, K) ==
    IF m.k = K THEN Same(m)
    ELSE CASE m.k = "A" ->
                (CASE K = "B" -> AMatrix_B(m) [] K = "H" -> AMatrix_H(m)
                   [] K = "Y" -> AMatrix_Y(m) [] K = "Z" -> AMatrix_Z(m)
                   [] K = "G" -> TwoPortMatrix_G(m))
           [] m.k = "B" ->
                (CASE K = "A" -> BMatrix_A(m) [] K = "G" -> BMatrix_G(m)
                   [] K = "H" -> BMatrix_H(m) [] K = "Y" -> BMatrix_Y(m)
                   [] K = "Z" -> BMatrix_Z(m))
           [] m.k = "G" ->
                (CASE K = "A" -> GMatrix_A(m) [] K = "B" -> GMatrix_B(m)
                   [] K = "H" -> GMatrix_H(m) [] K = "Y" -> GMatrix_Y(m)
                   [] K = "Z" -> GMatrix_Z(m))
           [] m.k = "H" ->
                (CASE K = "A" -> HMatrix_A(m) [] K = "B" -> HMatrix_B(m)
                   [] K = "Y" -> HMatrix_Y(m) [] K = "Z" -> HMatrix_Z(m)
                   [] K = "G" -> TwoPortMatrix_G(m))
           [] m.k = "Y" ->
                (CASE K = "A" -> YMatrix_A(m) [] K = "B" -> YMatrix_B(m)
                   [] K = "H" -> YMatrix_H(m) [] K = "Z" -> YMatrix_Z(m)
                   [] K = "G" -> TwoPortMatrix_G(m))
           [] m.k = "Z" ->
                (CASE K = "A" -> ZMatrix_A(m) [] K = "B" -> ZMatrix_B(m)
                   [] K = "H" -> ZMatrix_H(m) [] K = "Y" -> ZMatrix_Y(m)
                   [] K = "G" -> TwoPortMatrix_G(m))

(***************************************************************************)
(* One-ports: [cls |-> class name, a |-> value, b |-> second value,        *)
(*             args |-> children of a Ser / Par]                           *)
(*   R, G, Z, Y: a is the resistance / conductance / impedance /admittance *)
(*   L: a is the inductance, b the initial current i0                      *)
(*   C: a is the capacitance, b the initial voltage v0                     *)
(*   Vdc, Vstep, Vac, Idc, Istep, Iac: a is v0 / i0 (Vac, Iac: phi = 0)    *)
(*   V, sV, I, sI: a is the s-domain source value                          *)
(***************************************************************************)
Port(cls, a, b) == [cls |-> cls, a |-> a, b |-> b, args |-> <<>>]
NoPort == Port("None", Zero, Zero)
ValueError == Port("ValueError", Zero, Zero)

omega_1 == Q(1)

Thevenin(Zval, Vval) == Port("Thevenin", Zval, Vval)
Norton(Yval, Ival) == Port("Norton", Yval, Ival)
R(Rval) == Port("R", Rval, Zero)
G(Gval) == Port("G", Gval, Zero)
L(Lval, i0) == Port("L", Lval, i0)
C(Cval, v0) == Port("C", Cval, v0)
Y(Yval) == Port("Y", Yval, Zero)
Z(Zval) == Port("Z", Zval, Zero)
sV(Vval) == Port("sV", Vval, Zero)
\* V(Vval): an expression in s is kept as it is
V(Vval) == Port("V", Vval, Zero)
Vstep(v) == Port("Vstep", v, Zero)
Vdc(v) == Port("Vdc", v, Zero)
Vac(v) == Port("Vac", v, Zero)
sI(Ival) == Port("sI", Ival, Zero)
I(Ival) == Port("I", Ival, Zero)
Istep(i) == Port("Istep", i, Zero)
Idc(i) == Port("Idc", i, Zero)
Iac(i) == Port("Iac", i, Zero)

VoltageSource == {"sV", "V", "Vstep", "Vdc", "Vac"}
CurrentSource == {"sI", "I", "Istep", "Idc", "Iac"}
\* isinstance(x, Thevenin) / isinstance(x, Norton)
TheveninSub == {"Thevenin", "R", "L", "C", "Z"} \cup VoltageSource
NortonSub == {"Norton", "G", "Y"} \cup CurrentSource
ParSer == {"Ser", "Par"}

\* the value (s cos(phi) + omega sin(phi)) / (s^2 + omega^2) * v0 at phi = 0
AcValue(v0) ==
    RMul(RDiv(s, RAdd(RMul(s, s), RMul(omega_1, omega_1))), v0)

\* a stored impedance that gives a capacitor the impedance s C
Stored1_CapacitorAsInductor(x) ==
    CASE x.cls \in {"R", "Z", "Thevenin", "Norton"} -> x.a
      [] x.cls \in {"L", "C"} -> RMul(s, x.a)
      [] x.cls \in VoltageSource -> Zero
      [] x.cls \in {"G", "Y"} -> x.a
      [] x.cls \in CurrentSource -> Zero

\* the stored pair of a primitive: (Z, Voc) of a Thevenin, (Y, Isc) of a Norton
Stored1(x) ==
    CASE x.cls \in {"R", "Z", "Thevenin", "Norton"} -> x.a
      [] x.cls = "L" -> RMul(s, x.a)
      [] x.cls = "C" -> RDiv(One, RMul(s, x.a))
      [] x.cls \in VoltageSource -> Zero
      [] x.cls \in {"G", "Y"} -> x.a
      [] x.cls \in CurrentSource -> Zero

\* a stored source that gives an inductor the source -s L i0
Stored2_InductorTimesS(x) ==
    CASE x.cls \in {"R", "Z", "G", "Y"} -> Zero
      [] x.cls \in {"Thevenin", "Norton"} -> x.b
      [] x.cls = "L" -> RNeg(RMul(s, RMul(x.b, x.a)))
      [] x.cls = "C" -> RDiv(x.b, s)
      [] x.cls \in {"sV", "V", "sI", "I"} -> x.a
      [] x.cls \in {"Vstep", "Vdc", "Istep", "Idc"} -> RDiv(x.a, s)
      [] x.cls \in {"Vac", "Iac"} -> AcValue(x.a)

Stored2(x) ==
    CASE x.cls \in {"R", "Z", "G", "Y"} -> Zero
      [] x.cls \in {"Thevenin", "Norton"} -> x.b
      [] x.cls = "L" -> RNeg(RMul(x.b, x.a))
      [] x.cls = "C" -> RDiv(x.b, s)
      [] x.cls \in {"sV", "V", "sI", "I"} -> x.a
      [] x.cls \in {"Vstep", "Vdc", "Istep", "Idc"} -> RDiv(x.a, s)
      [] x.cls \in {"Vac", "Iac"} -> AcValue(x.a)

Thevenin_Y(x) == RDiv(One, Stored1(x))
\* a short-circuit current that multiplies by Z instead of dividing
Thevenin_Isc_Times(x) == RMul(Stored2(x), Stored1(x))
Thevenin_Isc(x) == RDiv(Stored2(x), Stored1(x))
Norton_Z(x) == RDiv(One, Stored1(x))
Norton_Voc(x) == RDiv(Stored2(x), Stored1(x))

RECURSIVE OnePort_Z(_), OnePort_Y(_), OnePort_Voc(_), OnePort_Isc(_)
RECURSIVE SumZ(_, _), SumY(_, _), SumVoc(_, _), SumIsc(_, _)

SumZ(args, n) ==
    IF n = 0 THEN Zero ELSE RAdd(SumZ(args, n - 1), OnePort_Z(args[n]))
SumVoc(args, n) ==
    IF n = 0 THEN Zero ELSE RAdd(SumVoc(args, n - 1), OnePort_Voc(args[n]))
SumY(args, n) ==
    IF n = 0 THEN Zero ELSE RAdd(SumY(args, n - 1), OnePort_Y(args[n]))
SumIsc(args, n) ==
    IF n = 0 THEN Zero ELSE RAdd(SumIsc(args, n - 1), OnePort_Isc(args[n]))

\* Series: Z is the sum of the Z_i; Parallel: Y is the sum of the Y_i
ParSer_Z(x) ==
    IF x.cls = "Ser" THEN SumZ(x.args, Len(x.args))
    ELSE RDiv(One, SumY(x.args, Len(x.args)))
ParSer_Y(x) ==
    IF x.cls = "Par" THEN SumY(x.args, Len(x.args))
    ELSE RDiv(One, SumZ(x.args, Len(x.args)))
\* Series: Voc is the sum of the Voc_i; Parallel: Isc is the sum of the Isc_i
ParSer_Voc(x) ==
    IF x.cls = "Ser" THEN SumVoc(x.args, Len(x.args))
    ELSE RDiv(SumIsc(x.args, Len(x.args)), SumY(x.args, Len(x.args)))
ParSer_Isc(x) == RDiv(ParSer_Voc(x), ParSer_Z(x))

OnePort_Z(x) ==
    CASE x.cls \in TheveninSub -> Stored1(x)
      [] x.cls \in NortonSub -> Norton_Z(x)
      [] x.cls \in ParSer -> ParSer_Z(x)
OnePort_Y(x) ==
    CASE x.cls \in TheveninSub -> Thevenin_Y(x)
      [] x.cls \in NortonSub -> Stored1(x)
      [] x.cls \in ParSer -> ParSer_Y(x)
OnePort_Voc(x) ==
    CASE x.cls \in TheveninSub -> Stored2(x)
      [] x.cls \in NortonSub -> Norton_Voc(x)
      [] x.cls \in ParSer -> ParSer_Voc(x)
OnePort_Isc(x) ==
    CASE x.cls \in TheveninSub -> Thevenin_Isc(x)
      [] x.cls \in NortonSub -> Stored2(x)
      [] x.cls \in ParSer -> ParSer_Isc(x)

\* Vdc.voc / Idc.isc: the time-domain value is the stored v0 / i0
Vdc_voc(x) == x.a
Idc_isc(x) == x.a

\* OnePort.I / OnePort.i: the open-circuit terminal current, Is(0) / It(0)
OnePort_I(x) == Zero
OnePort_i(x) == Zero

(***************************************************************************)
(* Series / Parallel composites                                            *)
(***************************************************************************)
Made(x, w) == [obj |-> x, warn |-> w, raised |-> FALSE]
Failed(w) == [obj |-> ValueError, warn |-> w, raised |-> TRUE]

OnePortClasses == TheveninSub \cup NortonSub \cup ParSer
\* isinstance(x, OnePort)
IsOnePort(x) == x.cls \in OnePortClasses

\* _check_oneport_args(args): TRUE when it lets the arguments pass
check_oneport_args(args) == \A n \in 1..Len(args) : IsOnePort(args[n])

Pairs(args) == {p \in (1..Len(args)) \X (1..Len(args)) : p[1] < p[2]}
Before(p, q) == p[1] < q[1] \/ (p[1] = q[1] /\ p[2] < q[2])

\* The pair loop of Par.__init__ / Ser.__init__ for the source class src:
\* two children of class src raise; one child of class src prints a warning.
PairLoop(cls, src, args) ==
    LET both(p) == args[p[1]].cls = src /\ args[p[2]].cls = src
        either(p) == args[p[1]].cls = src \/ args[p[2]].cls = src
        raises == \E p \in Pairs(args) : both(p)
        warns == \E p \in Pairs(args) :
                    /\ either(p) /\ ~both(p)
                    /\ \A q \in Pairs(args) : both(q) => Before(p, q)
    IN IF raises THEN Failed(warns)
       ELSE Made([cls |-> cls, a |-> Zero, b |-> Zero, args |-> args], warns)

Par_init(args) ==
    IF ~check_oneport_args(args) THEN Failed(FALSE)
    ELSE PairLoop("Par", "V", args)

\* a Series constructor that raises on any child of class I
Ser_init_Strict(args) ==
    IF ~check_oneport_args(args) THEN Failed(FALSE)
    ELSE IF \E n \in 1..Len(args) : args[n].cls = "I" THEN Failed(FALSE)
    ELSE PairLoop("Ser", "I", args)

Ser_init(args) ==
    IF ~check_oneport_args(args) THEN Failed(FALSE)
    ELSE PairLoop("Ser", "I", args)

ParSer_init(cls, args) ==
    IF cls = "Ser" THEN Ser_init(args) ELSE Par_init(args)

\* OnePort.__add__ / OnePort.__or__
OnePort_add(x, OP) == Ser_init(<<x, OP>>)
OnePort_or(x, OP) == Par_init(<<x, OP>>)

\* V(arg1 + arg2) hands the V constructor a Ser object, not an expression:
\* the source value of the result is not a number
V_of_sum(arg1, arg2) ==
    IF OnePort_add(arg1, arg2).raised THEN ValueError ELSE V(nan)
I_of_sum(arg1, arg2) ==
    IF OnePort_add(arg1, arg2).raised THEN ValueError ELSE I(nan)

\* a _combine that never elides a child of another class
CombineDifferent_KeepBoth(cls, arg1, arg2) == NoPort

\* ParSer._combine: NoPort stands for None, ValueError for a raised exception
CombineDifferent(cls, arg1, arg2) ==
    IF cls = "Ser" THEN
        CASE arg1.cls = "V" /\ OnePort_Voc(arg1) = Zero -> arg2
          [] arg2.cls = "V" /\ OnePort_Voc(arg2) = Zero -> arg1
          [] arg1.cls = "Z" /\ OnePort_Z(arg1) = Zero -> arg2
          [] arg2.cls = "Z" /\ OnePort_Z(arg2) = Zero -> arg1
          [] OTHER -> NoPort
    ELSE
        CASE arg1.cls = "I" /\ OnePort_Isc(arg1) = Zero -> arg2
          [] arg2.cls = "I" /\ OnePort_Isc(arg2) = Zero -> arg1
          [] arg1.cls = "Y" /\ OnePort_Y(arg1) = Zero -> arg2
          [] arg2.cls = "Y" /\ OnePort_Y(arg2) = Zero -> arg1
          [] OTHER -> NoPort

\* a series combination that adds capacitances and conductances
CombineSer_AddAll(arg1, arg2) ==
    CASE arg1.cls = "I" -> NoPort
      [] arg1.cls = "Vdc" -> Vdc(RAdd(arg1.a, arg2.a))
      [] arg1.cls = "V" -> V_of_sum(arg1, arg2)
      [] arg1.cls = "R" -> R(RAdd(arg1.a, arg2.a))
      [] arg1.cls = "L" ->
            IF arg1.b # arg2.b THEN ValueError
            ELSE L(RAdd(arg1.a, arg2.a), arg1.b)
      [] arg1.cls = "G" -> G(RAdd(arg1.a, arg2.a))
      [] arg1.cls = "C" -> C(RAdd(arg1.a, arg2.a), RAdd(arg1.b, arg2.b))
      [] OTHER -> NoPort

CombineSer(arg1, arg2) ==
    CASE arg1.cls = "I" -> NoPort
      [] arg1.cls = "Vdc" -> Vdc(RAdd(arg1.a, arg2.a))
      [] arg1.cls = "V" -> V_of_sum(arg1, arg2)
      [] arg1.cls = "R" -> R(RAdd(arg1.a, arg2.a))
      [] arg1.cls = "L" ->
            IF arg1.b # arg2.b THEN ValueError
            ELSE L(RAdd(arg1.a, arg2.a), arg1.b)
      [] arg1.cls = "G" ->
            G(RDiv(RMul(arg1.a, arg2.a), RAdd(arg1.a, arg2.a)))
      [] arg1.cls = "C" ->
            C(RDiv(RMul(arg1.a, arg2.a), RAdd(arg1.a, arg2.a)),
              RAdd(arg1.b, arg2.b))
      [] OTHER -> NoPort

\* a parallel combination that adds resistances and inductances
CombinePar_AddAll(arg1, arg2) ==
    CASE arg1.cls = "V" -> NoPort
      [] arg1.cls = "Idc" -> Idc(RAdd(arg1.a, arg2.a))
      [] arg1.cls = "I" -> I_of_sum(arg1, arg2)
      [] arg1.cls = "G" -> G(RAdd(arg1.a, arg2.a))
      [] arg1.cls = "C" ->
            IF arg1.b # arg2.b THEN ValueError
            ELSE C(RAdd(arg1.a, arg2.a), arg1.b)
      [] arg1.cls = "R" -> R(RAdd(arg1.a, arg2.a))
      [] arg1.cls = "L" -> L(RAdd(arg1.a, arg2.a), RAdd(arg1.b, arg2.b))
      [] OTHER -> NoPort

CombinePar(arg1, arg2) ==
    CASE arg1.cls = "V" -> NoPort
      [] arg1.cls = "Idc" -> Idc(RAdd(arg1.a, arg2.a))
      [] arg1.cls = "I" -> I_of_sum(arg1, arg2)
      [] arg1.cls = "G" -> G(RAdd(arg1.a, arg2.a))
      [] arg1.cls = "C" ->
            IF arg1.b # arg2.b THEN ValueError
            ELSE C(RAdd(arg1.a, arg2.a), arg1.b)
      [] arg1.cls = "R" ->
            R(RDiv(RMul(arg1.a, arg2.a), RAdd(arg1.a, arg2.a)))
      [] arg1.cls = "L" ->
            L(RDiv(RMul(arg1.a, arg2.a), RAdd(arg1.a, arg2.a)),
              RAdd(arg1.b, arg2.b))
      [] OTHER -> NoPort

\* a combination that keeps the first initial condition without comparing
ParSer_combine_Unchecked(cls, arg1, arg2) ==
    IF arg1.cls # arg2.cls THEN CombineDifferent(cls, arg1, arg2)
    ELSE IF cls = "Ser" /\ arg1.cls = "L"
         THEN L(RAdd(arg1.a, arg2.a), arg1.b)
    ELSE IF cls = "Par" /\ arg1.cls = "C"
         THEN C(RAdd(arg1.a, arg2.a), arg1.b)
    ELSE IF cls = "Ser" THEN CombineSer(arg1, arg2)
    ELSE CombinePar(arg1, arg2)

ParSer_combine(cls, arg1, arg2) ==
    IF arg1.cls # arg2.cls THEN CombineDifferent(cls, arg1, arg2)
    ELSE IF cls = "Ser" THEN CombineSer(arg1, arg2)
    ELSE CombinePar(arg1, arg2)

\* The scan of simplify() over the argument list.  A scan state is
\* [args, new, raised]; combined-away entries are NoPort (None).
RECURSIVE ScanInner(_, _, _, _, _)
\* an inner loop that ends at the first combination
Combined_Once(cls, st, n, m, arg1, newarg) ==
    IF newarg = ValueError
    THEN [st EXCEPT !.raised = TRUE]
    ELSE IF newarg # NoPort
    THEN [st EXCEPT !.args[m] = NoPort, !.args[n] = newarg, !.new = TRUE]
    ELSE ScanInner(cls, st, n, m + 1, arg1)

\* the rest of the inner loop once newarg = self._combine(arg1, arg2) is known
Combined(cls, st, n, m, arg1, newarg) ==
    IF newarg = ValueError
    THEN [st EXCEPT !.raised = TRUE]
    ELSE IF newarg # NoPort
    THEN ScanInner(cls, [st EXCEPT !.args[m] = NoPort, !.new = TRUE],
                   n, m + 1, newarg)
    ELSE ScanInner(cls, st, n, m + 1, arg1)

ScanInner(cls, st, n, m, arg1) ==
    IF st.raised \/ m > Len(st.args)
    THEN [st EXCEPT !.args[n] = IF st.raised THEN @ ELSE arg1]
    ELSE IF st.args[m] = NoPort \/ st.args[m].cls \in ParSer
    THEN ScanInner(cls, st, n, m + 1, arg1)
    ELSE Combined(cls, st, n, m, arg1,
                  ParSer_combine(cls, arg1, st.args[m]))

RECURSIVE ScanOuter(_, _, _)
ScanOuter(cls, st, n) ==
    IF st.raised \/ n > Len(st.args) THEN st
    ELSE LET arg1 == st.args[n] IN
         IF arg1 = NoPort \/ arg1.cls \in ParSer
         THEN ScanOuter(cls, st, n + 1)
         ELSE ScanOuter(cls, ScanInner(cls, st, n, n + 1, arg1), n + 1)

\* [arg for arg in args if arg is not None]
RECURSIVE NotNone(_)
NotNone(args) ==
    IF args = <<>> THEN <<>>
    ELSE IF Head(args) = NoPort THEN NotNone(Tail(args))
    ELSE <<Head(args)>> \o NotNone(Tail(args))

\* ParSer.simplify: flatten the children, then combine compatible pairs.
\* Returns the simplified one-port, or ValueError when an exception escapes.
RECURSIVE simplify(_)
RECURSIVE Flatten(_, _, _)
\* a first loop that appends every simplified child whole
Spliced_Whole(x, n, acc, sarg) ==
    IF sarg = ValueError
    THEN [acc EXCEPT !.raised = TRUE]
    ELSE Flatten(x, n + 1, [acc EXCEPT !.args = Append(@, sarg),
                                       !.new = TRUE])

\* the first loop once sarg = arg.simplify() is known
Spliced(x, n, acc, sarg) ==
    IF sarg = ValueError
    THEN [acc EXCEPT !.raised = TRUE]
    ELSE IF sarg.cls = x.cls
    THEN Flatten(x, n + 1, [acc EXCEPT !.args = @ \o sarg.args,
                                       !.new = TRUE])
    ELSE Flatten(x, n + 1, [acc EXCEPT !.args = Append(@, sarg),
                                       !.new = TRUE])

\* the first loop, from child n on: [args, new, raised]
Flatten(x, n, acc) ==
    IF acc.raised \/ n > Len(x.args) THEN acc
    ELSE IF x.args[n].cls \in ParSer
    THEN Spliced(x, n, acc, simplify(x.args[n]))
    ELSE Flatten(x, n + 1, [acc EXCEPT !.args = Append(@, x.args[n])])

\* if new: self = self.__class__(*newargs)
Rebuilt(x, fl) ==
    IF fl.raised THEN Failed(FALSE)
    ELSE IF fl.new THEN ParSer_init(x.cls, fl.args)
    ELSE Made(x, FALSE)

\* the object a constructor returned, or the exception that escapes
ObjOf(r) == IF r.raised THEN ValueError ELSE r.obj

\* if len(args) == 1: return args[0]; return self.__class__(*args)
Collected(cls, args) ==
    IF Len(args) = 1 THEN args[1] ELSE ObjOf(ParSer_init(cls, args))

\* the end of simplify() once the scan sc over self1 is done
Reduced(cls, self1, sc) ==
    IF sc.raised THEN ValueError
    ELSE IF ~sc.new THEN self1
    ELSE Collected(cls, NotNone(sc.args))

\* the second loop over the rebuilt composite
Pairwise(cls, self1) ==
    IF self1 = ValueError THEN ValueError
    ELSE Reduced(cls, self1,
                 ScanOuter(cls, [args |-> self1.args, new |-> FALSE,
                                 raised |-> FALSE], 1))

simplify(x) ==
    Pairwise(x.cls,
             ObjOf(Rebuilt(x, Flatten(x, 1, [args |-> <<>>, new |-> FALSE,
                                             raised |-> FALSE]))))

NoView == [Z |-> nan, Y |-> nan, Voc |-> nan, Isc |-> nan, I |-> nan, i |-> nan]

(***************************************************************************)
(* Two-ports: [cls |-> class name, model |-> kind of the stored matrix,    *)
(*             M |-> the stored matrix, v1, v2 |-> the stored source pair, *)
(*             args |-> the constructor arguments]                         *)
(* The stored pair is (V2b, I2b) of a B-model, (V1h, I2h) of an H-model,   *)
(* (I1y, I2y) of a Y-model and (V1z, V2z) of a Z-model.                    *)
(***************************************************************************)
TwoPortRec(cls, M, v1, v2, args) ==
    [cls |-> cls, model |-> M.k, M |-> M, v1 |-> v1, v2 |-> v2, args |-> args]
NoTwoPort == TwoPortRec("None", NoMatrix, Zero, Zero, <<>>)
TwoPortError == TwoPortRec("ValueError", NoMatrix, Zero, Zero, <<>>)

TwoPortClasses == {"TwoPortBModel", "TwoPortGModel", "TwoPortHModel",
                   "TwoPortYModel", "TwoPortZModel", "Chain", "Par2", "Ser2",
                   "Hybrid2", "InverseHybrid2", "Series", "Shunt",
                   "IdealTransformer", "LSection", "TSection", "PiSection",
                   "Ladder"}
\* isinstance(x, TwoPort)
IsTwoPort(x) == x.cls \in TwoPortClasses

TwoPortBModel(B, V2b, I2b) == TwoPortRec("TwoPortBModel", B, V2b, I2b, <<>>)
TwoPortHModel(H, V1h, I2h) == TwoPortRec("TwoPortHModel", H, V1h, I2h, <<>>)
TwoPortYModel(Yv, I1y, I2y) == TwoPortRec("TwoPortYModel", Yv, I1y, I2y, <<>>)
TwoPortZModel(Zv, V1z, V2z) == TwoPortRec("TwoPortZModel", Zv, V1z, V2z, <<>>)

BMatrix_Zseries(Zval) == Mat("B", One, RNeg(Zval), Zero, One)
BMatrix_Yshunt(Yval) == Mat("B", One, Zero, RNeg(Yval), One)
\* a transformer matrix with the turns ratio in both diagonal entries
BMatrix_transformer_Turns(alpha) == Mat("B", alpha, Zero, Zero, alpha)
BMatrix_transformer(alpha) == Mat("B", alpha, Zero, Zero, RDiv(One, alpha))

Series(OP) ==
    TwoPortRec("Series", BMatrix_Zseries(OnePort_Z(OP)), OnePort_Voc(OP),
               Zero, <<OP>>)
Shunt(OP) ==
    TwoPortRec("Shunt", BMatrix_Yshunt(OnePort_Y(OP)), Zero, OnePort_Isc(OP),
               <<OP>>)
IdealTransformer(alpha) ==
    TwoPortRec("IdealTransformer", BMatrix_transformer(alpha), Zero, Zero,
               <<>>)

\* TwoPort.B / .Y / .Z: self._M.B / .Y / .Z, _M being the BMatrix, HMatrix,
\* YMatrix or ZMatrix the model class stores
TwoPort_B(x) ==
    CASE x.model = "B" -> x.M
      [] x.model = "H" -> HMatrix_B(x.M).M
      [] x.model = "Y" -> YMatrix_B(x.M).M
      [] x.model = "Z" -> ZMatrix_B(x.M).M
TwoPort_Y(x) ==
    CASE x.model = "B" -> BMatrix_Y(x.M).M
      [] x.model = "H" -> HMatrix_Y(x.M).M
      [] x.model = "Y" -> x.M
      [] x.model = "Z" -> ZMatrix_Y(x.M).M
TwoPort_Z(x) ==
    CASE x.model = "B" -> BMatrix_Z(x.M).M
      [] x.model = "H" -> HMatrix_Z(x.M).M
      [] x.model = "Y" -> YMatrix_Z(x.M).M
      [] x.model = "Z" -> x.M

TwoPort_V2b(x) ==
    CASE x.model = "B" -> x.v1
      [] x.model = "H" -> RDiv(x.v1, E12(x.M))
      [] x.model = "Y" -> RDiv(RMul(x.v1, E11(x.M)), E22(x.M))
      [] x.model = "Z" ->
            RSub(x.v2, RDiv(RMul(x.v1, E22(x.M)), E12(x.M)))

TwoPort_I2b(x) ==
    CASE x.model = "B" -> x.v2
      [] x.model = "H" ->
            RSub(RMul(RDiv(E22(x.M), E12(x.M)), x.v1), x.v2)
      [] x.model = "Y" ->
            RSub(RDiv(RMul(RMul(RNeg(x.v1), E11(x.M)), E22(x.M)), E12(x.M)),
                 x.v2)
      [] x.model = "Z" -> RDiv(x.v1, E12(x.M))

TwoPort_I1y(x) ==
    CASE x.model = "Y" -> x.v1
      [] x.model = "Z" ->
            RSub(RDiv(RMul(RNeg(x.v1), E22(x.M)), det(x.M)),
                 RDiv(RMul(x.v2, E12(x.M)), det(x.M)))
      [] OTHER -> RDiv(RNeg(TwoPort_V2b(x)), E12(TwoPort_B(x)))

TwoPort_I2y(x) ==
    CASE x.model = "Y" -> x.v2
      [] x.model = "Z" ->
            RSub(RDiv(RMul(x.v1, E21(x.M)), det(x.M)),
                 RDiv(RMul(x.v2, E11(x.M)), det(x.M)))
      [] OTHER ->
            RSub(RDiv(RMul(TwoPort_V2b(x), E22(TwoPort_B(x))),
                      E12(TwoPort_B(x))),
                 TwoPort_I2b(x))

TwoPort_V1z(x) ==
    IF x.model = "Z" THEN x.v1
    ELSE RDiv(RNeg(TwoPort_I2b(x)), E21(TwoPort_B(x)))

TwoPort_V2z(x) ==
    IF x.model = "Z" THEN x.v2
    ELSE RSub(TwoPort_V2b(x),
              RDiv(RMul(TwoPort_I2b(x), E11(TwoPort_B(x))),
                   E21(TwoPort_B(x))))

\* Voc = (V1z, V2z), Isc = (I1y, I2y), Zoc = (Z11, Z22)
TwoPort_Voc(x) == <<TwoPort_V1z(x), TwoPort_V2z(x)>>
TwoPort_Isc(x) == <<TwoPort_I1y(x), TwoPort_I2y(x)>>
TwoPort_Z1oc(x) == E11(TwoPort_Z(x))
TwoPort_V1oc(x) == TwoPort_Voc(x)[1]

\* entry [q, q] of a matrix, q = 0 or 1
Diag(m, q) == IF q = 0 THEN E11(m) ELSE E22(m)

TPMade(x) == [obj |-> x, warn |-> FALSE, raised |-> FALSE]
TPFailed == [obj |-> TwoPortError, warn |-> FALSE, raised |-> TRUE]

\* a loop body that multiplies the next argument's B on the left
ChainStep_ArgOnLeft(B, foo, arg) ==
    [B |-> MatMul(TwoPort_B(arg), B),
     foo |-> VecAdd(foo, MatVec(B, <<TwoPort_V2b(arg), TwoPort_I2b(arg)>>))]

\* a loop body that adds the upstream sources without transforming them
ChainStep_Untransformed(B, foo, arg) ==
    [B |-> MatMul(B, TwoPort_B(arg)),
     foo |-> VecAdd(foo, <<TwoPort_V2b(arg), TwoPort_I2b(arg)>>)]

\* the loop body of Chain.__init__: foo += B * Vector(...); B = B * arg.B
ChainStep(B, foo, arg) ==
    [B |-> MatMul(B, TwoPort_B(arg)),
     foo |-> VecAdd(foo, MatVec(B, <<TwoPort_V2b(arg), TwoPort_I2b(arg)>>))]

\* the loop of Chain.__init__ from argument n down to the first one
RECURSIVE ChainFold(_, _, _, _)
ChainFold(args, n, B, foo) ==
    IF n = 0 THEN [B |-> B, foo |-> foo]
    ELSE LET r == ChainStep(B, foo, args[n])
         IN ChainFold(args, n - 1, r.B, r.foo)

\* a check that lets any number of two-ports, at least two, pass
check_twoport_args_AtLeastTwo(args) ==
    Len(args) >= 2 /\ \A n \in 1..Len(args) : IsTwoPort(args[n])

\* TwoPort._check_twoport_args: TRUE when it lets the arguments pass
check_twoport_args(args) ==
    Len(args) = 2 /\ \A n \in 1..Len(args) : IsTwoPort(args[n])

\* super(Chain, self).__init__(B, Vs(foo[0, 0]), Is(foo[1, 0]))
ChainModel(args, r) ==
    TPMade(TwoPortRec("Chain", r.B, r.foo[1], r.foo[2], args))

Chain_init(args) ==
    IF ~check_twoport_args(args) THEN TPFailed
    ELSE LET arg1 == args[Len(args)]
         IN ChainModel(args,
                       ChainFold(args, Len(args) - 1, TwoPort_B(arg1),
                                 <<TwoPort_V2b(arg1), TwoPort_I2b(arg1)>>))

\* TwoPort.chain(TP)
TwoPort_chain(x, TP) ==
    IF ~IsTwoPort(TP) THEN TPFailed ELSE Chain_init(<<x, TP>>)

\* Z(foo.Z1oc) + V(foo.V1oc) of the chained two-port foo
InputPort(foo) ==
    IF foo.raised THEN Failed(FALSE)
    ELSE OnePort_add(Z(TwoPort_Z1oc(foo.obj)), V(TwoPort_V1oc(foo.obj)))

\* a load that puts the one-port in the series arm
TwoPort_load_SeriesArm(x, TP) ==
    IF ~IsOnePort(TP) THEN Failed(FALSE)
    ELSE InputPort(TwoPort_chain(x, Series(TP)))

\* TwoPort.load(TP): foo = self.chain(Shunt(TP)); return Z(...) + V(...)
TwoPort_load(x, TP) ==
    IF ~IsOnePort(TP) THEN Failed(FALSE)
    ELSE InputPort(TwoPort_chain(x, Shunt(TP)))

\* a short circuit that reads the entries of the shorted port itself
TwoPort_short_circuit_SamePort(x, prt) ==
    LET p == prt - 1 IN
    OnePort_or(Y(Diag(TwoPort_Y(x), p)), I(TwoPort_Isc(x)[p + 1]))

\* TwoPort.short_circuit(port): Y(Yval) | I(Ival)
TwoPort_short_circuit(x, prt) ==
    LET p == prt - 1 IN
    OnePort_or(Y(Diag(TwoPort_Y(x), 1 - p)), I(TwoPort_Isc(x)[(1 - p) + 1]))

\* TwoPort.open_circuit(port): Z(Zval) + V(Vval)
TwoPort_open_circuit(x, prt) ==
    LET p == prt - 1 IN
    OnePort_add(Z(Diag(TwoPort_Z(x), 1 - p)), V(TwoPort_Voc(x)[(1 - p) + 1]))

(***************************************************************************)
(* The two-port combinators and the section constructors                   *)
(***************************************************************************)
\* TwoPort.H: self._M.H
TwoPort_H(x) ==
    CASE x.model = "B" -> BMatrix_H(x.M).M
      [] x.model = "H" -> x.M
      [] x.model = "Y" -> YMatrix_H(x.M).M
      [] x.model = "Z" -> ZMatrix_H(x.M).M

\* TwoPort.G: self._M.G, which inverts H for every kind but B and G
TwoPort_G(x) ==
    CASE x.model = "B" -> BMatrix_G(x.M)
      [] x.model = "G" -> Same(x.M)
      [] OTHER -> TwoPortMatrix_G(x.M)

TwoPort_V1h(x) ==
    IF x.model = "H" THEN x.v1
    ELSE RDiv(RNeg(TwoPort_V2b(x)), E11(TwoPort_B(x)))

TwoPort_I2h(x) ==
    IF x.model = "H" THEN x.v2
    ELSE RSub(RDiv(RMul(RNeg(TwoPort_V2b(x)), E21(TwoPort_B(x))),
                   E11(TwoPort_B(x))),
              TwoPort_I2b(x))

TwoPort_I1g(x) ==
    IF x.model = "G" THEN x.v1
    ELSE RDiv(RNeg(TwoPort_I2b(x)), E22(TwoPort_B(x)))

TwoPort_V2g(x) ==
    IF x.model = "G" THEN x.v2
    ELSE RSub(TwoPort_V2b(x),
              RMul(RDiv(E12(TwoPort_B(x)), E22(TwoPort_B(x))),
                   TwoPort_I2b(x)))

TwoPort_isseries(x) ==
    E11(TwoPort_B(x)) = One /\ E22(TwoPort_B(x)) = One
    /\ E21(TwoPort_B(x)) = Zero

TwoPort_isshunt(x) ==
    E11(TwoPort_B(x)) = One /\ E22(TwoPort_B(x)) = One
    /\ E12(TwoPort_B(x)) = Zero

\* TwoPortGModel.__init__ stores (I1g, V2g) beside the G matrix
TwoPortGModel(Gv, I1g, V2g) == TwoPortRec("TwoPortGModel", Gv, I1g, V2g, <<>>)

\* an exception that is not a ValueError
TwoPortTypeError == TwoPortRec("TypeError", NoMatrix, Zero, Zero, <<>>)
TPTypeError == [obj |-> TwoPortTypeError, warn |-> FALSE, raised |-> TRUE]

\* what each argument contributes to a combinator: its matrix of the
\* combinator's kind and its companion source pair
YTerms(args) ==
    [n \in 1..Len(args) |->
        [M |-> TwoPort_Y(args[n]), v1 |-> TwoPort_I1y(args[n]),
         v2 |-> TwoPort_I2y(args[n]), raised |-> FALSE]]
ZTerms(args) ==
    [n \in 1..Len(args) |->
        [M |-> TwoPort_Z(args[n]), v1 |-> TwoPort_V1z(args[n]),
         v2 |-> TwoPort_V2z(args[n]), raised |-> FALSE]]
HTerms(args) ==
    [n \in 1..Len(args) |->
        [M |-> TwoPort_H(args[n]), v1 |-> TwoPort_V1h(args[n]),
         v2 |-> TwoPort_I2h(args[n]), raised |-> FALSE]]
GTerm(x, g) ==
    [M |-> g.M, v1 |-> TwoPort_I1g(x), v2 |-> TwoPort_V2g(x),
     raised |-> g.raised]
GTerms(args) == [n \in 1..Len(args) |-> GTerm(args[n], TwoPort_G(args[n]))]

\* a loop that adds the matrices and leaves the sources of args[0]
AddTerm_MatrixOnly(acc, t) ==
    IF acc.raised \/ t.raised THEN [acc EXCEPT !.raised = TRUE]
    ELSE [acc EXCEPT !.M = MatAdd(acc.M, t.M)]

\* one pass of "v1 += arg.v1; v2 += arg.v2; M += arg.M"
AddTerm(acc, t) ==
    IF acc.raised \/ t.raised THEN [acc EXCEPT !.raised = TRUE]
    ELSE [M |-> MatAdd(acc.M, t.M), v1 |-> RAdd(acc.v1, t.v1),
          v2 |-> RAdd(acc.v2, t.v2), raised |-> FALSE]

\* arg = args[0]; for arg in args[1:]: accumulate
RECURSIVE SumTerms(_, _)
SumTerms(terms, n) ==
    IF n = 1 THEN terms[1]
    ELSE AddTerm(SumTerms(terms, n - 1), terms[n])

\* super(cls, self).__init__(M, v1, v2) of the model class
ModelOf(cls, args, w, t) ==
    IF t.raised THEN TPFailed
    ELSE [obj |-> TwoPortRec(cls, t.M, t.v1, t.v2, args), warn |-> w,
          raised |-> FALSE]

\* a Par2 that prints its warning for a Series argument
Par2_init_WarnSeries(args) ==
    IF ~check_twoport_args(args) THEN TPFailed
    ELSE ModelOf("Par2", args,
                 args[1].cls = "Series" \/ args[2].cls = "Series",
                 SumTerms(YTerms(args), Len(args)))

\* Par2.__init__
Par2_init(args) ==
    IF ~check_twoport_args(args) THEN TPFailed
    ELSE ModelOf("Par2", args,
                 args[1].cls = "Shunt" \/ args[2].cls = "Shunt",
                 SumTerms(YTerms(args), Len(args)))

\* Ser2.__init__
Ser2_init(args) ==
    IF ~check_twoport_args(args) THEN TPFailed
    ELSE ModelOf("Ser2", args,
                 args[2].cls \in {"Series", "LSection", "TSection"},
                 SumTerms(ZTerms(args), Len(args)))

\* Hybrid2.__init__
Hybrid2_init(args) ==
    IF ~check_twoport_args(args) THEN TPFailed
    ELSE ModelOf("Hybrid2", args, FALSE, SumTerms(HTerms(args), Len(args)))

\* the classes whose instances super(cls, self) accepts as self
Subclasses(cls) ==
    CASE cls = "TwoPortGModel" -> {"TwoPortGModel", "InverseHybrid2"}
      [] cls = "TwoPortHModel" -> {"TwoPortHModel", "Hybrid2"}
      [] cls = "Hybrid2" -> {"Hybrid2"}
      [] cls = "InverseHybrid2" -> {"InverseHybrid2"}

\* super(cls, self).__init__(...) for self of class selfcls: a TypeError
\* unless self is an instance of cls
super_init(cls, selfcls, made) ==
    IF made.raised THEN made
    ELSE IF selfcls \notin Subclasses(cls) THEN TPTypeError
    ELSE made

\* InverseHybrid2.__init__, which ends in super(Hybrid2, self).__init__
InverseHybrid2_init(args) ==
    IF ~check_twoport_args(args) THEN TPFailed
    ELSE super_init("Hybrid2", "InverseHybrid2",
                    ModelOf("InverseHybrid2", args, FALSE,
                            SumTerms(GTerms(args), Len(args))))

\* Series.__init__ / Shunt.__init__
Series_init(OP) ==
    IF ~check_oneport_args(<<OP>>) THEN TPFailed ELSE TPMade(Series(OP))
Shunt_init(OP) ==
    IF ~check_oneport_args(<<OP>>) THEN TPFailed ELSE TPMade(Shunt(OP))

\* TwoPortBModel.__init__(B) for B a two-port: B, V2b, I2b = B._M, B._V2b,
\* B._I2b; the chains handed to it are B-models
CopyOf(cls, args, x) == TPMade(TwoPortRec(cls, x.M, x.v1, x.v2, args))

\* Series(OP1).chain(Shunt(OP2))
LSection_init(args) ==
    IF ~check_oneport_args(args) THEN TPFailed
    ELSE CopyOf("LSection", args,
                TwoPort_chain(Series(args[1]), Shunt(args[2])).obj)

\* Series(OP1).chain(Shunt(OP2)).chain(Series(OP3))
TSection_init(args) ==
    IF ~check_oneport_args(args) THEN TPFailed
    ELSE CopyOf("TSection", args,
                TwoPort_chain(
                    TwoPort_chain(Series(args[1]), Shunt(args[2])).obj,
                    Series(args[3])).obj)

\* the loop of Ladder.__init__ from argument n on; args[n] is the source's
\* args[m] with m = n - 2
RECURSIVE LadderFold(_, _, _)
LadderFold(args, n, TP) ==
    IF n > Len(args) THEN TP
    ELSE LadderFold(args, n + 1,
                    TwoPort_chain(TP, IF (n - 2) % 2 = 1
                                      THEN Series(args[n])
                                      ELSE Shunt(args[n])).obj)

Ladder_init(args) ==
    IF ~check_oneport_args(args) THEN TPFailed
    ELSE CopyOf("Ladder", args, LadderFold(args, 2, Series(args[1])))

\* Shunt(OP1).chain(Series(OP2)).chain(Shunt(OP3)); Shunt and Series check
\* their argument
PiSection_init(args) ==
    IF ~check_oneport_args(args) THEN TPFailed
    ELSE CopyOf("PiSection", args,
                TwoPort_chain(
                    TwoPort_chain(Shunt(args[1]), Series(args[2])).obj,
                    Shunt(args[3])).obj)

\* (a | b).simplify() / (a + b).simplify(): ValueError when either raises
SimplifyMade(r) == IF r.raised THEN ValueError ELSE simplify(r.obj)
SeriesOf(OP) == IF OP = ValueError THEN TPFailed ELSE Series_init(OP)
ShuntOf(OP) == IF OP = ValueError THEN TPFailed ELSE Shunt_init(OP)

\* Chain.simplify; OP names the simplified one-port, evaluated once
Chain_simplify(x) ==
    IF x.args[1].cls = "Shunt" /\ x.args[2].cls = "Shunt"
    THEN CHOOSE r \in {ShuntOf(OP) : OP \in
                {SimplifyMade(OnePort_or(x.args[1].args[1],
                                         x.args[2].args[1]))}} : TRUE
    ELSE IF x.args[1].cls = "Series" /\ x.args[2].cls = "Series"
    THEN CHOOSE r \in {SeriesOf(OP) : OP \in
                {SimplifyMade(OnePort_add(x.args[1].args[1],
                                          x.args[2].args[1]))}} : TRUE
    ELSE TPMade(x)

(***************************************************************************)
(* The matrix session: a native matrix of some kind is built, then read    *)
(* through the conversion properties, each applied to the last result.     *)
(***************************************************************************)
Entries == {Q(n) : n \in (-1)..MaxVal}

InitMatrix ==
    /\ pc = "matrix"
    /\ s = Q(2)
    /\ mat0 \in {Mat(k, e[1], e[2], e[3], e[4]) :
                    k \in Kinds, e \in Entries \X Entries \X Entries \X Entries}
    /\ mat = mat0
    /\ path = <<>>
    /\ warned = FALSE
    /\ divzero = FALSE
    /\ opA = NoPort /\ opB = NoPort /\ call = "" /\ net = NoPort
    /\ simp = NoPort /\ view = NoView
    /\ tpA = NoTwoPort /\ operand = NoTwoPort /\ port = 0 /\ tp = NoTwoPort
    /\ argv = <<>>

\* read property K of the current matrix
\* the matrix a conversion returned, with its warning and its exception
Converted(r) ==
    /\ mat' = r.M
    /\ warned' = (warned \/ r.warn)
    /\ divzero' = (divzero \/ r.dz)
    /\ pc' = IF r.raised THEN "raised" ELSE "matrix"

To(K) ==
    /\ pc = "matrix"
    /\ Len(path) < MaxPath
    /\ Converted(Convert(mat, K))
    /\ path' = Append(path, K)
    /\ UNCHANGED <<argv, s, mat0, opA, opB, call, net, simp, view, tpA, operand,
                   port, tp>>

ToA == To("A")
ToB == To("B")
ToG == To("G")
ToH == To("H")
ToY == To("Y")
ToZ == To("Z")

NextMatrix == ToA \/ ToB \/ ToG \/ ToH \/ ToY \/ ToZ

SpecMatrix == InitMatrix /\ [][NextMatrix]_vars

(***************************************************************************)
(* C2: converting a matrix to kind K2 through kind K1 gives the matrix     *)
(* that converting it to K2 directly gives, whenever no formula on either  *)
(* route divided by a zero entry or determinant; in particular a round     *)
(* trip M.K1.K returns M, and the B form of an A-matrix is its inverse.    *)
(***************************************************************************)
Identity(k) == Mat(k, One, Zero, Zero, One)

C2_ConversionsCommute ==
    (pc = "matrix" /\ Len(path) = 2 /\ ~divzero
       /\ ~Convert(mat0, path[2]).dz /\ ~Convert(mat0, path[2]).raised)
    => /\ mat = Convert(mat0, path[2]).M
       /\ (path[2] = mat0.k => mat = mat0)
       /\ (mat0.k = "A" /\ path = <<"B", "A">>
             => MatMul(mat0, Convert(mat0, "B").M).e = Identity("A").e)

C2_Witness ==
    /\ pc = "matrix" /\ ~divzero
    /\ mat0.k = "Y" /\ path = <<"G", "Z">>
    /\ mat.k = "Z" /\ mat = Convert(mat0, "Z").M
    /\ mat0.e[2] # mat0.e[3]

(***************************************************************************)
(* The one-port session: two primitives are constructed; then either the   *)
(* properties of the first are read, or the two are combined with          *)
(* Ser(a, b) / Par(a, b) and the composite is simplified.                  *)
(***************************************************************************)
SPoints == {Q(n) : n \in 2..MaxS}
Pos == {Q(n) : n \in 1..MaxParam}
NonNeg == {Q(n) : n \in 0..MaxParam}

\* the primitives a caller constructs from plain numbers; a constant handed
\* to V / I is a dc value, v / s in the s-domain
Primitives ==
    {R(r) : r \in Pos} \cup {G(g) : g \in Pos}
    \cup {Thevenin(z, v) : z \in NonNeg, v \in NonNeg}
    \cup {Norton(y, i) : y \in NonNeg, i \in NonNeg}
    \cup {L(l, i0) : l \in Pos, i0 \in NonNeg}
    \cup {C(c, v0) : c \in Pos, v0 \in NonNeg}
    \cup {Z(z) : z \in NonNeg} \cup {Y(y) : y \in NonNeg}
    \cup {V(RDiv(v, s)) : v \in NonNeg} \cup {I(RDiv(i, s)) : i \in NonNeg}
    \cup {sV(v) : v \in NonNeg} \cup {sI(i) : i \in NonNeg}
    \cup {Vdc(v) : v \in NonNeg} \cup {Idc(i) : i \in NonNeg}
    \cup {Vstep(v) : v \in NonNeg} \cup {Istep(i) : i \in NonNeg}
    \cup {Vac(v) : v \in NonNeg} \cup {Iac(i) : i \in NonNeg}

InitOnePort ==
    /\ pc = "args"
    /\ s \in SPoints
    /\ opA \in Primitives
    /\ opB \in Primitives
    /\ call = "" /\ net = NoPort /\ simp = NoPort /\ view = NoView
    /\ warned = FALSE
    /\ mat0 = NoMatrix /\ mat = NoMatrix /\ path = <<>> /\ divzero = FALSE
    /\ tpA = NoTwoPort /\ operand = NoTwoPort /\ port = 0 /\ tp = NoTwoPort
    /\ argv = <<>>

\* opA.Z, opA.Y, opA.Voc, opA.Isc, opA.I, opA.i
ReadViews ==
    /\ pc = "args"
    /\ view' = [Z |-> OnePort_Z(opA), Y |-> OnePort_Y(opA),
                Voc |-> OnePort_Voc(opA), Isc |-> OnePort_Isc(opA),
                I |-> OnePort_I(opA), i |-> OnePort_i(opA)]
    /\ pc' = "read"
    /\ UNCHANGED <<argv, s, mat0, mat, path, warned, divzero, opA, opB, call, net,
                   simp, tpA, operand, port, tp>>

Construct(cls) ==
    /\ pc = "args"
    /\ LET r == ParSer_init(cls, <<opA, opB>>) IN
        /\ net' = r.obj
        /\ warned' = r.warn
        /\ pc' = IF r.raised THEN "call_raised" ELSE "built"
    /\ call' = cls
    /\ UNCHANGED <<argv, s, mat0, mat, path, divzero, opA, opB, simp, view, tpA,
                   operand, port, tp>>

\* Ser(opA, opB), also written opA + opB
MakeSer == Construct("Ser")

\* Par(opA, opB), also written opA | opB
MakePar == Construct("Par")

\* net.simplify()
Simplify ==
    /\ pc = "built"
    /\ simp' = simplify(net)
    /\ pc' = IF simp' = ValueError THEN "simplify_raised" ELSE "simplified"
    /\ UNCHANGED <<argv, s, mat0, mat, path, warned, divzero, opA, opB, call, net,
                   view, tpA, operand, port, tp>>

NextOnePort == ReadViews \/ MakeSer \/ MakePar \/ Simplify

SpecOnePort == InitOnePort /\ [][NextOnePort]_vars

(***************************************************************************)
(* C3: a one-port held as a Thevenin pair with Z # 0 reads Y * Z = 1 and   *)
(* Isc * Z = Voc; a one-port held as a Norton pair with Y # 0 reads        *)
(* Z * Y = 1 and Voc * Y = Isc.                                            *)
(***************************************************************************)
C3_TheveninNortonDual ==
    pc = "read" =>
      /\ (opA.cls \in TheveninSub /\ view.Z # Zero)
            => /\ RMul(view.Y, view.Z) = One
               /\ RMul(view.Isc, view.Z) = view.Voc
      /\ (opA.cls \in NortonSub /\ view.Y # Zero)
            => /\ RMul(view.Z, view.Y) = One
               /\ RMul(view.Voc, view.Y) = view.Isc

C3_Witness ==
    /\ pc = "read" /\ opA.cls = "Norton"
    /\ view.Y = Q(2) /\ view.Isc = One
    /\ view.Z = <<1, 2>> /\ view.Voc = <<1, 2>>

(***************************************************************************)
(* C4: simplify() of a Series of two primitives of one type returns one    *)
(* primitive of that type: R(R1+R2) with Z = R1+R2 and Voc = 0; for equal  *)
(* initial currents L(L1+L2) with Z = (L1+L2) s; C(C1 C2/(C1+C2), v1+v2);  *)
(* G(G1 G2/(G1+G2)); Vdc(v1+v2) with time-domain voc = v1+v2.              *)
(***************************************************************************)
SumOf(x, y) == Q(x[1] + y[1])
ProductOverSum(x, y) == Norm(x[1] * y[1], x[1] + y[1])

C4_SeriesPairs ==
    (call = "Ser" /\ pc \in {"simplified", "simplify_raised"}
       /\ opA.cls = opB.cls)
    => /\ opA.cls = "R" =>
            /\ simp = R(SumOf(opA.a, opB.a))
            /\ OnePort_Z(simp) = SumOf(opA.a, opB.a)
            /\ OnePort_Voc(simp) = Zero
       /\ (opA.cls = "L" /\ opA.b = opB.b) =>
            /\ simp.cls = "L" /\ simp.a = SumOf(opA.a, opB.a)
            /\ OnePort_Z(simp) = RMul(SumOf(opA.a, opB.a), s)
       /\ opA.cls = "C" =>
            simp = C(ProductOverSum(opA.a, opB.a), SumOf(opA.b, opB.b))
       /\ opA.cls = "G" => simp = G(ProductOverSum(opA.a, opB.a))
       /\ opA.cls = "Vdc" =>
            /\ simp = Vdc(SumOf(opA.a, opB.a))
            /\ Vdc_voc(simp) = SumOf(opA.a, opB.a)

C4_Witness ==
    /\ call = "Ser" /\ pc = "simplified"
    /\ opA.cls = "C" /\ opB.cls = "C" /\ opA.a # opB.a
    /\ opA.b # Zero /\ opB.b # Zero
    /\ simp.cls = "C" /\ simp.a = ProductOverSum(opA.a, opB.a)

(***************************************************************************)
(* C5: simplify() of a Parallel of two primitives of one type returns one  *)
(* primitive of that type: R(R1 R2/(R1+R2)); L(L1 L2/(L1+L2), i1+i2); for  *)
(* equal initial voltages C(C1+C2); G(G1+G2); Idc(i1+i2) with              *)
(* Isc = (i1+i2)/s.                                                        *)
(***************************************************************************)
C5_ParallelPairs ==
    (call = "Par" /\ pc \in {"simplified", "simplify_raised"}
       /\ opA.cls = opB.cls)
    => /\ opA.cls = "R" => simp = R(ProductOverSum(opA.a, opB.a))
       /\ opA.cls = "L" =>
            simp = L(ProductOverSum(opA.a, opB.a), SumOf(opA.b, opB.b))
       /\ (opA.cls = "C" /\ opA.b = opB.b) =>
            simp.cls = "C" /\ simp.a = SumOf(opA.a, opB.a)
       /\ opA.cls = "G" => simp = G(SumOf(opA.a, opB.a))
       /\ opA.cls = "Idc" =>
            /\ simp = Idc(SumOf(opA.a, opB.a))
            /\ OnePort_Isc(simp) = RDiv(SumOf(opA.a, opB.a), s)

C5_Witness ==
    /\ call = "Par" /\ pc = "simplified"
    /\ opA.cls = "L" /\ opB.cls = "L" /\ opA.a # opB.a
    /\ opA.b # Zero /\ opB.b # Zero
    /\ simp.cls = "L" /\ simp.a = ProductOverSum(opA.a, opB.a)

(***************************************************************************)
(* C6: combining two pure voltage sources of unequal value in a Parallel   *)
(* raises and yields no composite, whatever the kind of the sources; two   *)
(* pure current sources of unequal value in a Series likewise.             *)
(***************************************************************************)
C6_UnequalSourcesRaise ==
    /\ (call = "Par" /\ opA.cls \in VoltageSource /\ opB.cls \in VoltageSource
          /\ OnePort_Voc(opA) # OnePort_Voc(opB))
       => (pc = "call_raised" /\ net = ValueError)
    /\ (call = "Ser" /\ opA.cls \in CurrentSource /\ opB.cls \in CurrentSource
          /\ OnePort_Isc(opA) # OnePort_Isc(opB))
       => (pc = "call_raised" /\ net = ValueError)

(***************************************************************************)
(* C7 (as claimed): a Series holding a pure current source together with   *)
(* another one-port is a hard error and no Series object is returned.      *)
(***************************************************************************)
C7_CurrentSourceInSeriesRaises ==
    (call = "Ser" /\ (opA.cls \in CurrentSource \/ opB.cls \in CurrentSource))
    => (pc = "call_raised" /\ net = ValueError)

(***************************************************************************)
(* C7 (amended): a Series holding a single pure current source together    *)
(* with a one-port that is not a current source is not an error: the       *)
(* Series object is returned with its children, and the constructor emits  *)
(* a warning when that source is a generic I.                              *)
(***************************************************************************)
C7_SingleCurrentSourceWarns ==
    (call = "Ser"
       /\ (opA.cls \in CurrentSource) # (opB.cls \in CurrentSource))
    => /\ pc # "call_raised"
       /\ net.cls = "Ser" /\ net.args = <<opA, opB>>
       /\ ("I" \in {opA.cls, opB.cls} => warned)

C7_Witness ==
    /\ call = "Ser" /\ pc = "built"
    /\ opA.cls = "R" /\ opB.cls = "I" /\ opB.a # Zero
    /\ net.cls = "Ser" /\ warned

(***************************************************************************)
(* C8: simplifying a Series of two inductors with different initial        *)
(* currents, or a Parallel of two capacitors with different initial        *)
(* voltages, raises and returns no element; with equal initial conditions  *)
(* the combined element carries the common initial condition.              *)
(***************************************************************************)
C8_InitialConditions ==
    (pc \in {"simplified", "simplify_raised"}
       /\ \/ call = "Ser" /\ opA.cls = "L" /\ opB.cls = "L"
          \/ call = "Par" /\ opA.cls = "C" /\ opB.cls = "C")
    => IF opA.b # opB.b
       THEN pc = "simplify_raised" /\ simp = ValueError
       ELSE pc = "simplified" /\ simp.cls = opA.cls /\ simp.b = opA.b

C8_Witness ==
    /\ pc = "simplify_raised" /\ call = "Ser"
    /\ opA.cls = "L" /\ opB.cls = "L" /\ opA.b # opB.b

(***************************************************************************)
(* The two-port session: a two-port and an argument (a two-port or a       *)
(* one-port) are constructed; then one of Chain(tpA, operand),             *)
(* tpA.load(operand), tpA.short_circuit(port), tpA.open_circuit(port) is   *)
(* called.                                                                 *)
(***************************************************************************)
Flags == {Zero, One}

\* the one-ports handed to Series / Shunt / load
PortSamples ==
    {R(r) : r \in Pos}
    \cup {L(l, i0) : l \in Pos, i0 \in Flags}
    \cup {C(c, v0) : c \in Pos, v0 \in Flags}
    \cup {Thevenin(z, v) : z \in Pos, v \in Flags}
    \cup {Norton(y, i) : y \in Pos, i \in Flags}
    \cup {Vdc(v) : v \in Pos} \cup {Idc(i) : i \in Pos}
    \cup {Ser_init(<<R(r), Vdc(v)>>).obj : r \in Pos, v \in Pos}

SourcePairs == {<<Zero, Zero>>, <<One, Q(2)>>}

\* two-ports given directly by a stored matrix and source pair
Models ==
    {TwoPortRec(c[1], Mat(c[2], One, a, One, Q(2)), v[1], v[2], <<>>) :
        c \in {<<"TwoPortBModel", "B">>, <<"TwoPortHModel", "H">>,
               <<"TwoPortYModel", "Y">>, <<"TwoPortZModel", "Z">>},
        a \in Pos, v \in SourcePairs}

TwoPorts ==
    {Series(OP) : OP \in PortSamples} \cup {Shunt(OP) : OP \in PortSamples}
    \cup {IdealTransformer(alpha) : alpha \in Pos}
    \cup Models

InitTwoPort ==
    /\ pc = "args2"
    /\ s \in SPoints
    /\ tpA \in TwoPorts
    /\ operand \in TwoPorts \cup PortSamples
    /\ port = 0 /\ tp = NoTwoPort /\ call = "" /\ net = NoPort
    /\ argv = <<>>
    /\ warned = FALSE
    /\ opA = NoPort /\ opB = NoPort /\ simp = NoPort /\ view = NoView
    /\ mat0 = NoMatrix /\ mat = NoMatrix /\ path = <<>> /\ divzero = FALSE

\* the two-port a constructor returned, or the exception it raised
Built(name, r) ==
    /\ tp' = r.obj
    /\ pc' = IF r.raised THEN "raised" ELSE "returned"
    /\ call' = name
    /\ UNCHANGED <<argv, s, mat0, mat, path, warned, divzero, opA, opB, net, simp,
                   view, tpA, operand, port>>

\* Chain(tpA, operand)
MakeChain ==
    /\ pc = "args2"
    /\ Built("Chain", Chain_init(<<tpA, operand>>))

Returns(name, r) ==
    /\ net' = r.obj
    /\ warned' = r.warn
    /\ pc' = IF r.raised THEN "raised" ELSE "returned"
    /\ call' = name
    /\ UNCHANGED <<argv, s, mat0, mat, path, divzero, opA, opB, simp, view, tpA,
                   operand, tp>>

\* tpA.load(operand)
Load ==
    /\ pc = "args2"
    /\ Returns("load", TwoPort_load(tpA, operand))
    /\ UNCHANGED port

\* tpA.short_circuit(p)
ShortCircuit ==
    /\ pc = "args2"
    /\ \E p \in {1, 2} :
        /\ port' = p
        /\ Returns("short_circuit", TwoPort_short_circuit(tpA, p))

\* tpA.open_circuit(p)
OpenCircuit ==
    /\ pc = "args2"
    /\ \E p \in {1, 2} :
        /\ port' = p
        /\ Returns("open_circuit", TwoPort_open_circuit(tpA, p))

\* TwoPort.Bmodel: TwoPortBModel(self.B, self.V2b, self.I2b)
TwoPort_Bmodel(x) ==
    TwoPortBModel(TwoPort_B(x), TwoPort_V2b(x), TwoPort_I2b(x))

\* tpA.Bmodel
Bmodel ==
    /\ pc = "args2"
    /\ tp' = TwoPort_Bmodel(tpA)
    /\ pc' = "bmodel"
    /\ call' = "Bmodel"
    /\ UNCHANGED <<argv, s, mat0, mat, path, warned, divzero, opA, opB, net,
                   simp, view, tpA, operand, port>>

NextTwoPort == MakeChain \/ Load \/ ShortCircuit \/ OpenCircuit \/ Bmodel

SpecTwoPort == InitTwoPort /\ [][NextTwoPort]_vars

\* the product X . Y of two 2x2 entry tuples, written out
Product(P, T) ==
    <<RAdd(RMul(P[1], T[1]), RMul(P[2], T[3])),
      RAdd(RMul(P[1], T[2]), RMul(P[2], T[4])),
      RAdd(RMul(P[3], T[1]), RMul(P[4], T[3])),
      RAdd(RMul(P[3], T[2]), RMul(P[4], T[4]))>>

(***************************************************************************)
(* C1 (as claimed): the B-matrix of Chain(T1, T2) is the product           *)
(* T1.B . T2.B, first argument on the left.                                *)
(***************************************************************************)
C1_ChainFirstOnLeft ==
    (call = "Chain" /\ pc = "returned")
    => TwoPort_B(tp).e = Product(TwoPort_B(tpA).e, TwoPort_B(operand).e)

(***************************************************************************)
(* C1 (amended): the B-matrix of Chain(T1, T2) is the product              *)
(* T2.B . T1.B, second argument on the left, also when the two B-matrices  *)
(* do not commute.                                                         *)
(***************************************************************************)
C1_ChainSecondOnLeft ==
    (call = "Chain" /\ pc = "returned")
    => /\ tp.cls = "Chain" /\ tp.model = "B"
       /\ TwoPort_B(tp).e = Product(TwoPort_B(operand).e, TwoPort_B(tpA).e)

C1_Witness ==
    /\ call = "Chain" /\ pc = "returned"
    /\ tpA.cls = "Series" /\ operand.cls = "Shunt"
    /\ Product(TwoPort_B(operand).e, TwoPort_B(tpA).e)
         # Product(TwoPort_B(tpA).e, TwoPort_B(operand).e)
    /\ TwoPort_B(tp).e = Product(TwoPort_B(operand).e, TwoPort_B(tpA).e)

(***************************************************************************)
(* C9: T.load(OP) is the Ser composite of Z(Z1oc) and V(V1oc) of           *)
(* Chain(T, Shunt(OP)); for T = Shunt(A) with finite A.Y + OP.Y # 0 its Z  *)
(* is 1 / (A.Y + OP.Y) and its Voc is (A.Isc + OP.Isc) / (A.Y + OP.Y).     *)
(***************************************************************************)
FiniteView(OP) ==
    /\ IsFinite(OnePort_Y(OP)) /\ IsFinite(OnePort_Isc(OP))

OtherPort == IF port = 1 THEN 2 ELSE 1

C11_ChainSourceFold ==
    (call = "Chain" /\ pc = "returned")
    => LET B2 == TwoPort_B(operand).e
           v1 == TwoPort_V2b(tpA)
           i1 == TwoPort_I2b(tpA)
       IN /\ TwoPort_V2b(tp)
               = RAdd(TwoPort_V2b(operand),
                      RAdd(RMul(B2[1], v1), RMul(B2[2], i1)))
          /\ TwoPort_I2b(tp)
               = RAdd(TwoPort_I2b(operand),
                      RAdd(RMul(B2[3], v1), RMul(B2[4], i1)))

C11_Witness ==
    /\ call = "Chain" /\ pc = "returned"
    /\ tpA.cls = "Series" /\ TwoPort_V2b(tpA) # Zero
    /\ operand.cls = "Shunt" /\ TwoPort_I2b(operand) # Zero
    /\ IsFinite(TwoPort_I2b(tp))
    /\ TwoPort_V2b(tp) = TwoPort_V2b(tpA)
    /\ TwoPort_I2b(tp) # RAdd(TwoPort_I2b(operand), TwoPort_I2b(tpA))

(***************************************************************************)
(* The combinator session: a one-port, a two-port and an argument (a       *)
(* two-port or a one-port) are at hand; one constructor is called on a     *)
(* list of them, and a Chain that was built is simplified.                 *)
(***************************************************************************)
PortFew ==
    {R(One), Vdc(One), Idc(One), V(RDiv(One, s)), I(RDiv(One, s)),
     Thevenin(One, One), Norton(One, One)}
    \cup {L(One, i0) : i0 \in Flags} \cup {C(One, v0) : v0 \in Flags}

ModelsFew ==
    {TwoPortBModel(Mat("B", One, One, One, Q(2)), One, Q(2)),
     TwoPortHModel(Mat("H", One, One, One, Q(2)), One, Q(2)),
     TwoPortYModel(Mat("Y", One, One, One, Q(2)), One, Q(2)),
     TwoPortZModel(Mat("Z", One, One, One, Q(2)), One, Q(2)),
     IdealTransformer(Q(2))}

InitCombine ==
    /\ pc = "args3"
    /\ s \in SPoints
    /\ opA \in PortFew
    /\ tpA \in {Series(opA), Shunt(opA)} \cup ModelsFew
    /\ operand \in PortFew \cup {Series(OP) : OP \in PortFew}
                   \cup {Shunt(OP) : OP \in PortFew} \cup ModelsFew
    /\ port = 0 /\ tp = NoTwoPort /\ call = "" /\ net = NoPort
    /\ argv = <<>>
    /\ warned = FALSE
    /\ opB = NoPort /\ simp = NoPort /\ view = NoView
    /\ mat0 = NoMatrix /\ mat = NoMatrix /\ path = <<>> /\ divzero = FALSE

\* the argument lists handed to a combinator
TwoPortArgs ==
    {<<tpA>>, <<tpA, operand>>, <<operand, tpA>>, <<tpA, operand, tpA>>}
\* the argument lists handed to a constructor that takes n one-ports
OnePortArgs(n) ==
    CASE n = 1 -> {<<opA>>, <<operand>>}
      [] n = 2 -> {<<opA, operand>>, <<operand, opA>>}
      [] n = 3 -> {<<opA, operand, opA>>}

\* an acc += x that writes the sum into the object acc was bound to
IAdd_InPlace(old, sum) == sum

\* acc += x on a Matrix or an expression: the name acc is bound to a new
\* object holding the sum, and the object it was bound to keeps its value
IAdd(old, sum) == old

\* the kind of stored matrix a combinator starts its accumulation from
Accumulated(name) ==
    CASE name = "Par2" -> "Y"
      [] name = "Ser2" -> "Z"
      [] name = "Hybrid2" -> "H"
      [] name = "InverseHybrid2" -> "G"
      [] OTHER -> "none"

\* The operand x once name(*args) returned r.  Y = arg.Y (Z, H, G alike) on
\* a model of that kind is the operand's own stored matrix self._M, and
\* I1y = arg.I1y its stored source: the loop's += acts on those objects.
OperandAfter(name, args, r, x) ==
    IF Accumulated(name) = "none" \/ r.raised THEN x
    ELSE IF args[1] # x \/ x.model # Accumulated(name) THEN x
    ELSE [x EXCEPT !.M = IAdd(x.M, r.obj.M), !.v1 = IAdd(x.v1, r.obj.v1),
                   !.v2 = IAdd(x.v2, r.obj.v2)]

\* the constructor name(*args) returned the two-port r.obj or raised
Called(name, args, r) ==
    /\ tp' = r.obj
    /\ warned' = r.warn
    /\ pc' = IF r.raised THEN "raised" ELSE "returned"
    /\ call' = name
    /\ argv' = args
    /\ tpA' = OperandAfter(name, args, r, tpA)
    /\ operand' = OperandAfter(name, args, r, operand)
    /\ UNCHANGED <<s, mat0, mat, path, divzero, opA, opB, net, simp, view, port>>

\* the constructor name(*args) returned the one-port r.obj or raised
CalledOnePort(name, args, r) ==
    /\ net' = r.obj
    /\ warned' = r.warn
    /\ pc' = IF r.raised THEN "raised" ELSE "returned"
    /\ call' = name
    /\ argv' = args
    /\ UNCHANGED <<s, mat0, mat, path, divzero, opA, opB, tp, simp, view,
                   tpA, operand, port>>

NewChain ==
    /\ pc = "args3"
    /\ \E args \in TwoPortArgs : Called("Chain", args, Chain_init(args))
NewPar2 ==
    /\ pc = "args3"
    /\ \E args \in TwoPortArgs : Called("Par2", args, Par2_init(args))
NewSer2 ==
    /\ pc = "args3"
    /\ \E args \in TwoPortArgs : Called("Ser2", args, Ser2_init(args))
NewHybrid2 ==
    /\ pc = "args3"
    /\ \E args \in TwoPortArgs : Called("Hybrid2", args, Hybrid2_init(args))
NewInverseHybrid2 ==
    /\ pc = "args3"
    /\ \E args \in TwoPortArgs :
        Called("InverseHybrid2", args, InverseHybrid2_init(args))
NewSeries ==
    /\ pc = "args3"
    /\ \E args \in OnePortArgs(1) : Called("Series", args, Series_init(args[1]))
NewShunt ==
    /\ pc = "args3"
    /\ \E args \in OnePortArgs(1) : Called("Shunt", args, Shunt_init(args[1]))
NewLSection ==
    /\ pc = "args3"
    /\ \E args \in OnePortArgs(2) :
        Called("LSection", args, LSection_init(args))
NewTSection ==
    /\ pc = "args3"
    /\ \E args \in OnePortArgs(3) :
        Called("TSection", args, TSection_init(args))
NewLadder ==
    /\ pc = "args3"
    /\ \E args \in OnePortArgs(1) \cup OnePortArgs(2) \cup OnePortArgs(3) :
        Called("Ladder", args, Ladder_init(args))
NewSer ==
    /\ pc = "args3"
    /\ \E args \in OnePortArgs(1) \cup OnePortArgs(2) :
        CalledOnePort("Ser", args, Ser_init(args))
NewPar ==
    /\ pc = "args3"
    /\ \E args \in OnePortArgs(1) \cup OnePortArgs(2) :
        CalledOnePort("Par", args, Par_init(args))

\* the two-port simplify() returned, or the exception it raised
Collapsed(r) ==
    /\ simp' = r.obj
    /\ pc' = IF r.raised THEN "simplify_raised" ELSE "simplified"
    /\ UNCHANGED <<argv, s, mat0, mat, path, warned, divzero, opA, opB, call,
                   net, view, tpA, operand, port, tp>>

\* tp.simplify() for the Chain tp
SimplifyChain ==
    /\ pc = "returned" /\ call = "Chain"
    /\ Collapsed(Chain_simplify(tp))

NewPiSection ==
    /\ pc = "args3"
    /\ \E args \in OnePortArgs(3) :
        Called("PiSection", args, PiSection_init(args))

\* Chain(tp, c) for the Chain tp and a third two-port c
ChainOn ==
    /\ pc = "returned" /\ call = "Chain"
    /\ \E c \in {tpA, Series(opA), Shunt(opA), IdealTransformer(Q(2))} :
        /\ tp' = Chain_init(<<tp, c>>).obj
        /\ argv' = <<tp, c>>
    /\ pc' = "nested"
    /\ UNCHANGED <<s, mat0, mat, path, warned, divzero, opA, opB, call, net,
                   simp, view, tpA, operand, port>>

\* OnePort.expand returns self; ParSer.expand rebuilds the composite from
\* its expanded children
RECURSIVE expand(_)
expand(x) ==
    IF x.cls \in ParSer
    THEN ObjOf(ParSer_init(x.cls,
                           [n \in 1..Len(x.args) |-> expand(x.args[n])]))
    ELSE x

\* net.simplify() for the Ser / Par net: the loops assign to the local
\* names self, newargs and args = list(self.args) only
SimplifyNet ==
    /\ pc = "returned" /\ call \in ParSer
    /\ simp' = simplify(net)
    /\ pc' = IF simp' = ValueError THEN "net_raised" ELSE "net_simplified"
    /\ UNCHANGED <<argv, s, mat0, mat, path, warned, divzero, opA, opB, call,
                   net, view, tpA, operand, port, tp>>

\* net.expand() for the Ser / Par net
ExpandNet ==
    /\ pc = "returned" /\ call \in ParSer
    /\ simp' = expand(net)
    /\ pc' = "expanded"
    /\ UNCHANGED <<argv, s, mat0, mat, path, warned, divzero, opA, opB, call,
                   net, view, tpA, operand, port, tp>>

NextCombine ==
    \/ NewChain \/ NewPar2 \/ NewSer2 \/ NewHybrid2 \/ NewInverseHybrid2
    \/ NewSeries \/ NewShunt \/ NewLSection \/ NewTSection \/ NewLadder
    \/ NewSer \/ NewPar \/ SimplifyChain \/ SimplifyNet \/ ExpandNet
    \/ NewPiSection \/ ChainOn

SpecCombine == InitCombine /\ [][NextCombine]_vars

\* every entry of the matrix and both companion sources are finite
FiniteTerm(t) ==
    /\ \A n \in 1..4 : IsFinite(t.M.e[n])
    /\ IsFinite(t.v1) /\ IsFinite(t.v2)

(***************************************************************************)
(* C12: for two two-ports with well-defined Y-models, Par2(A, B) holds the *)
(* entrywise sum of A.Y and B.Y and the sums of the port source currents   *)
(* I1y and I2y; for well-defined Z-models Ser2(A, B) holds the sum of A.Z  *)
(* and B.Z and the sums of V1z and V2z.                                    *)
(***************************************************************************)
C12_ParSerSums ==
    /\ (call = "Par2" /\ Len(argv) = 2
        /\ \A n \in 1..Len(argv) :
              IsTwoPort(argv[n]) /\ FiniteTerm(YTerms(argv)[n]))
       => /\ pc = "returned"
          /\ TwoPort_Y(tp) = MatAdd(TwoPort_Y(argv[1]), TwoPort_Y(argv[2]))
          /\ TwoPort_I1y(tp) = RAdd(TwoPort_I1y(argv[1]), TwoPort_I1y(argv[2]))
          /\ TwoPort_I2y(tp) = RAdd(TwoPort_I2y(argv[1]), TwoPort_I2y(argv[2]))
    /\ (call = "Ser2" /\ Len(argv) = 2
        /\ \A n \in 1..Len(argv) :
              IsTwoPort(argv[n]) /\ FiniteTerm(ZTerms(argv)[n]))
       => /\ pc = "returned"
          /\ TwoPort_Z(tp) = MatAdd(TwoPort_Z(argv[1]), TwoPort_Z(argv[2]))
          /\ TwoPort_V1z(tp) = RAdd(TwoPort_V1z(argv[1]), TwoPort_V1z(argv[2]))
          /\ TwoPort_V2z(tp) = RAdd(TwoPort_V2z(argv[1]), TwoPort_V2z(argv[2]))

C12_Witness ==
    /\ call = "Par2" /\ pc = "returned"
    /\ argv[1].cls = "TwoPortBModel" /\ argv[2].cls = "Series"
    /\ FiniteTerm(YTerms(argv)[1]) /\ FiniteTerm(YTerms(argv)[2])
    /\ TwoPort_I1y(argv[1]) # Zero /\ TwoPort_I1y(argv[2]) # Zero
    /\ TwoPort_I1y(tp) # TwoPort_I1y(argv[1])
    /\ TwoPort_Y(tp) # TwoPort_Y(argv[1])


\* Hybrid2(argv) of two two-ports with finite H forms sums them
HybridSums ==
    (call = "Hybrid2" /\ Len(argv) = 2
     /\ \A n \in 1..Len(argv) :
           IsTwoPort(argv[n]) /\ FiniteTerm(HTerms(argv)[n]))
    => /\ pc = "returned"
       /\ TwoPort_H(tp) = MatAdd(TwoPort_H(argv[1]), TwoPort_H(argv[2]))
       /\ TwoPort_V1h(tp) = RAdd(TwoPort_V1h(argv[1]), TwoPort_V1h(argv[2]))
       /\ TwoPort_I2h(tp) = RAdd(TwoPort_I2h(argv[1]), TwoPort_I2h(argv[2]))

\* InverseHybrid2(argv) of two two-ports with finite G forms sums them
InverseHybridSums ==
    (call = "InverseHybrid2" /\ Len(argv) = 2
     /\ \A n \in 1..Len(argv) :
           /\ IsTwoPort(argv[n])
           /\ ~GTerms(argv)[n].raised
           /\ FiniteTerm(GTerms(argv)[n]))
    => /\ pc = "returned"
       /\ TwoPort_G(tp).M
             = MatAdd(TwoPort_G(argv[1]).M, TwoPort_G(argv[2]).M)
       /\ TwoPort_I1g(tp) = RAdd(TwoPort_I1g(argv[1]), TwoPort_I1g(argv[2]))
       /\ TwoPort_V2g(tp) = RAdd(TwoPort_V2g(argv[1]), TwoPort_V2g(argv[2]))

(***************************************************************************)
(* C13: Hybrid2(A, B) and InverseHybrid2(A, B) both construct for two      *)
(* two-ports with defined H (resp. G) forms; the result holds the          *)
(* entrywise sum of the H (resp. G) matrices and the sums of the companion *)
(* sources (V1h, I2h) (resp. (I1g, V2g)), readable back from the result.   *)
(***************************************************************************)
C13_HybridsConstruct == HybridSums /\ InverseHybridSums


(***************************************************************************)
(* C14: reading .Z of the A-matrix of a pure series impedance (A12 # 0,    *)
(* A21 = 0) calls warn() and still returns a ZMatrix; nothing is raised.   *)
(***************************************************************************)
C14_SeriesToZWarns ==
    (mat0.k = "A" /\ E12(mat0) # Zero /\ E21(mat0) = Zero
     /\ path = <<"Z">>)
    => warned /\ pc = "matrix" /\ mat.k = "Z"

C14_Witness ==
    /\ \E z \in Entries \ {Zero} : mat0 = AMatrix_Zseries(z)
    /\ path = <<"Z">>
    /\ warned /\ pc = "matrix" /\ mat.k = "Z"
    /\ E11(mat) = zoo

(***************************************************************************)
(* C15: every conversion from one matrix kind to another whose formula     *)
(* divides by a zero entry or determinant calls warn() and raises nothing. *)
(***************************************************************************)
C15_ZeroDivisorWarns ==
    (Len(path) = 1 /\ divzero) => (warned /\ pc = "matrix")


\* some argument of the last call is a Series / a Shunt two-port
HasArg(cls) == \E n \in 1..Len(argv) : argv[n].cls = cls

Combinators == {"Chain", "Par2", "Ser2", "Hybrid2", "InverseHybrid2"}
OnePortTakers == {"Series", "Shunt", "LSection", "TSection", "Ladder",
                  "Ser", "Par"}

(***************************************************************************)
(* C17: a combinator (Chain, Par2, Ser2, Hybrid2, InverseHybrid2) given a  *)
(* number of operands other than two, or an operand that is not a TwoPort, *)
(* raises and returns nothing; Series, Shunt, LSection, TSection, Ladder,  *)
(* Ser and Par given an argument that is not a OnePort raise likewise.     *)
(***************************************************************************)
C17_WrongOperandsRaise ==
    /\ (call \in Combinators
        /\ (Len(argv) # 2 \/ \E n \in 1..Len(argv) : ~IsTwoPort(argv[n])))
       => pc = "raised" /\ tp = TwoPortError
    /\ (call \in OnePortTakers /\ \E n \in 1..Len(argv) : ~IsOnePort(argv[n]))
       => pc = "raised" /\ tp \in {TwoPortError, NoTwoPort}
                        /\ net \in {ValueError, NoPort}

C17_Witness ==
    /\ call = "Chain" /\ pc = "raised"
    /\ Len(argv) = 3 /\ \A n \in 1..Len(argv) : IsTwoPort(argv[n])


\* x is a voltage (current) source of any class whose value is zero, or a
\* generic impedance (admittance) that is zero
ZeroElement(cls, x) ==
    IF cls = "Ser"
    THEN \/ x.cls \in VoltageSource \cup {"V"} /\ OnePort_Voc(x) = Zero
         \/ x.cls = "Z" /\ OnePort_Z(x) = Zero
    ELSE \/ x.cls \in CurrentSource \cup {"I"} /\ OnePort_Isc(x) = Zero
         \/ x.cls = "Y" /\ OnePort_Y(x) = Zero

\* x is a generic V (I) whose value is zero, or a generic Z (Y) that is zero
GenericZero(cls, x) ==
    IF cls = "Ser"
    THEN \/ x.cls = "V" /\ OnePort_Voc(x) = Zero
         \/ x.cls = "Z" /\ OnePort_Z(x) = Zero
    ELSE \/ x.cls = "I" /\ OnePort_Isc(x) = Zero
         \/ x.cls = "Y" /\ OnePort_Y(x) = Zero

\* simplify() of the two-child composite net dropped opA when dropA, opB
\* when dropB (one of the two when both), and returned the rest unchanged
Elided(dropA, dropB) ==
    /\ pc = "simplified"
    /\ (dropA /\ ~dropB) => simp = opB
    /\ (dropB /\ ~dropA) => simp = opA
    /\ (dropA /\ dropB) => simp \in {opA, opB}
    /\ (~dropA /\ ~dropB) => simp = net

(***************************************************************************)
(* C18 as stated: in simplify() two children of different primitive types  *)
(* are never combined (both are kept), except that a zero-valued voltage   *)
(* source or zero impedance in a Series, or a zero-valued current source   *)
(* or zero admittance in a Parallel, is elided and the other child kept.   *)
(***************************************************************************)
C18_ZeroElementElided ==
    (call \in ParSer /\ pc \in {"simplified", "simplify_raised"}
     /\ opA.cls # opB.cls)
    => Elided(ZeroElement(call, opA), ZeroElement(call, opB))

(***************************************************************************)
(* C18 amended: two children of different classes are never combined into  *)
(* a new primitive; the only elision is of a generic V with Voc = 0 or a   *)
(* generic Z with Z = 0 in a Series, and of a generic I with Isc = 0 or a  *)
(* generic Y with Y = 0 in a Parallel, the other child being returned      *)
(* unchanged.  A zero-valued source of any other class is kept.            *)
(***************************************************************************)
C18_GenericZeroElided ==
    (call \in ParSer /\ pc \in {"simplified", "simplify_raised"}
     /\ opA.cls # opB.cls)
    => Elided(GenericZero(call, opA), GenericZero(call, opB))

C18_Witness ==
    /\ call = "Ser" /\ pc = "simplified"
    /\ opA.cls = "V" /\ OnePort_Voc(opA) = Zero
    /\ opB.cls = "L" /\ opB.b # Zero
    /\ simp = opB


(***************************************************************************)
(* The nesting session: a nest of Series / Parallel composites up to three *)
(* levels deep has been constructed from a few primitives; it is           *)
(* simplified.                                                             *)
(***************************************************************************)
Leaves == {R(One), C(One, One), Vdc(One), V(Zero)}

\* the composites cls(*args) that construct, for the argument lists in A
Composites(A) ==
    {r.obj : r \in {q \in {ParSer_init(cls, args) : cls \in ParSer, args \in A} :
                        ~q.raised}}

Depth1 == Composites(Leaves \X Leaves)
Depth2Chain == Composites((Depth1 \X Leaves) \cup (Leaves \X Depth1))
Depth2 ==
    Depth2Chain
    \cup Composites((Leaves \X Depth1 \X Leaves) \cup (Depth1 \X Depth1))
Depth3 == Composites((Depth2Chain \X Leaves) \cup (Leaves \X Depth2Chain))

InitNested ==
    /\ pc = "built"
    /\ s \in SPoints
    /\ net \in Depth2 \cup Depth3
    /\ call = net.cls
    /\ opA = NoPort /\ opB = NoPort /\ simp = NoPort /\ view = NoView
    /\ warned = FALSE
    /\ mat0 = NoMatrix /\ mat = NoMatrix /\ path = <<>> /\ divzero = FALSE
    /\ tpA = NoTwoPort /\ operand = NoTwoPort /\ port = 0 /\ tp = NoTwoPort
    /\ argv = <<>>

NextNested == Simplify

SpecNested == InitNested /\ [][NextNested]_vars

\* no composite inside x, x included, has a direct child of its own class
RECURSIVE NoOwnClassChild(_)
NoOwnClassChild(x) ==
    x.cls \in ParSer =>
        \A n \in 1..Len(x.args) :
            x.args[n].cls # x.cls /\ NoOwnClassChild(x.args[n])

\* u can be had from v by deleting elements
RECURSIVE IsSubseq(_, _)
IsSubseq(u, v) ==
    IF u = <<>> THEN TRUE
    ELSE IF v = <<>> THEN FALSE
    ELSE IF Head(u) = Head(v) THEN IsSubseq(Tail(u), Tail(v))
    ELSE IsSubseq(u, Tail(v))

\* the children of net once same-class children are spliced in
Spread == Flatten(net, 1, [args |-> <<>>, new |-> FALSE, raised |-> FALSE]).args

\* child i of the list F is a composite, which the scan skips, or a
\* primitive that _combine pairs with no other primitive of F
Alone(F, i) ==
    \/ F[i].cls \in ParSer
    \/ \A n \in 1..Len(F) :
          (n # i /\ F[n].cls \notin ParSer)
          => /\ ParSer_combine(net.cls, F[i], F[n]) = NoPort
             /\ ParSer_combine(net.cls, F[n], F[i]) = NoPort

\* the children of F that are not combined, from child i on
RECURSIVE AloneFrom(_, _)
AloneFrom(F, i) ==
    IF i > Len(F) THEN <<>>
    ELSE (IF Alone(F, i) THEN <<F[i]>> ELSE <<>>) \o AloneFrom(F, i + 1)

\* the children simplify() returned: those of the composite, or the one
\* primitive everything was combined into
Returned == IF simp.cls \in ParSer THEN simp.args ELSE <<simp>>

ArmA == tp.args[1].args[1]
ArmB == tp.args[2].args[1]

\* the Chain tp joins two two-ports of class cls whose one-ports do not
\* disagree in an initial condition, and every quantity of the Chain is finite
ChainOfTwo(cls) ==
    /\ call = "Chain" /\ pc \in {"simplified", "simplify_raised"}
    /\ tp.args[1].cls = cls /\ tp.args[2].cls = cls
    /\ ~(ArmA.cls = ArmB.cls /\ ArmA.cls \in {"L", "C"} /\ ArmA.b # ArmB.b)
    /\ FiniteTerm(tp)

\* simplify() returned the two-port x, which stands for the Chain tp
SameTwoPort(x) ==
    /\ pc = "simplified" /\ simp = x
    /\ TwoPort_B(simp) = TwoPort_B(tp)
    /\ TwoPort_V2b(simp) = TwoPort_V2b(tp)
    /\ TwoPort_I2b(simp) = TwoPort_I2b(tp)

(***************************************************************************)
(* C20: Chain(Shunt(a), Shunt(b)).simplify() is Shunt((a | b).simplify())  *)
(* and Chain(Series(a), Series(b)).simplify() is                           *)
(* Series((a + b).simplify()); the collapsed two-port has the B-matrix and *)
(* the (V2b, I2b) sources of the Chain and satisfies isshunt (isseries).   *)
(***************************************************************************)
C20_ChainCollapses ==
    /\ ChainOfTwo("Shunt")
       => /\ SameTwoPort(Shunt(simplify(OnePort_or(ArmA, ArmB).obj)))
          /\ TwoPort_isshunt(simp)
    /\ ChainOfTwo("Series")
       => /\ SameTwoPort(Series(simplify(OnePort_add(ArmA, ArmB).obj)))
          /\ TwoPort_isseries(simp)

(***************************************************************************)
(* C21: R(r) reads Z = r and Voc = Isc = 0; L(l, i0) reads Z = l s and     *)
(* Voc = -l i0; C(c, v0) reads Z = 1 / (c s) and Voc = v0 / s; the         *)
(* terminal current I (and i) of every one-port reads 0.                   *)
(***************************************************************************)
C21_PrimitivePairs ==
    pc = "read" =>
      /\ opA.cls = "R" =>
            view.Z = opA.a /\ view.Voc = Zero /\ view.Isc = Zero
      /\ opA.cls = "L" =>
            view.Z = RMul(opA.a, s) /\ view.Voc = RNeg(RMul(opA.a, opA.b))
      /\ opA.cls = "C" =>
            /\ view.Z = RDiv(One, RMul(opA.a, s))
            /\ view.Voc = RDiv(opA.b, s)
      /\ view.I = Zero /\ view.i = Zero

C21_Witness ==
    /\ pc = "read" /\ opA.cls = "C" /\ opA.a = Q(2) /\ opA.b = One
    /\ view.Z = RDiv(One, RMul(Q(2), s)) /\ view.Voc = RDiv(One, s)
    /\ view.I = Zero

(***************************************************************************)
(* C22 as stated: L(Lval, i0) holds Z = s Lval and Voc = -s Lval i0, which *)
(* is zero exactly when i0 is zero.                                        *)
(***************************************************************************)
C22_InductorSourceTimesS ==
    (pc = "read" /\ opA.cls = "L")
    => /\ view.Z = RMul(s, opA.a)
       /\ view.Voc = RNeg(RMul(s, RMul(opA.a, opA.b)))
       /\ view.Voc = Zero <=> opA.b = Zero

(***************************************************************************)
(* C22 amended: L(Lval, i0) holds Z = s Lval and the s-domain source       *)
(* Voc = -Lval i0, without a factor s; it is zero exactly when i0 is zero. *)
(***************************************************************************)
C22_InductorSource ==
    (pc = "read" /\ opA.cls = "L")
    => /\ view.Z = RMul(s, opA.a)
       /\ view.Voc = RNeg(RMul(opA.a, opA.b))
       /\ view.Voc = Zero <=> opA.b = Zero

C22_Witness ==
    /\ pc = "read" /\ opA.cls = "L" /\ opA.a = Q(2) /\ opA.b = One
    /\ view.Voc = Q(-2) /\ view.Z = RMul(s, Q(2))

(***************************************************************************)
(* C23: every Ser or Par object a constructor returns holds at least two   *)
(* one-port children.                                                      *)
(***************************************************************************)
C23_AtLeastTwoChildren ==
    (pc = "returned" /\ call \in {"Ser", "Par"}) => Len(net.args) >= 2

Xtal_expand(a) ==
    OnePort_or(OnePort_add(OnePort_add(R(a[2]), L(a[3], Zero)).obj,
                           C(a[4], Zero)).obj,
               C(a[1], Zero)).obj

\* FerriteBead.expand: R(Rs) + (R(Rp) + L(Lp) + C(Cp)) for (Rs, Rp, Cp, Lp)
FerriteBead_expand(a) ==
    OnePort_add(R(a[1]),
                OnePort_add(OnePort_add(R(a[2]), L(a[4], Zero)).obj,
                            C(a[3], Zero)).obj).obj

\* N = self.expand(); super(supercls, self).__init__(N.Z, N.V) for self of
\* class selfcls: super() raises TypeError unless self is a supercls
Compound_init(selfcls, supercls, args, N) ==
    IF selfcls # supercls THEN Failed(FALSE)
    ELSE Made([cls |-> selfcls, a |-> OnePort_Z(N), b |-> OnePort_Voc(N),
               args |-> args], FALSE)

\* Xtal.__init__: super(Xtal, self)
Xtal_init(args) == Compound_init("Xtal", "Xtal", args, Xtal_expand(args))

\* FerriteBead.__init__: super(Xtal, self)
FerriteBead_init(args) ==
    Compound_init("FerriteBead", "Xtal", args, FerriteBead_expand(args))

\* x.expand() for a compound x
Compound_expand(x) ==
    IF x.cls = "Xtal" THEN Xtal_expand(x.args) ELSE FerriteBead_expand(x.args)

\* the four positive parameters of a compound
CompoundArgs == {<<p, q, u, v>> : p \in Pos, q \in Pos, u \in Pos, v \in Pos}

InitCompound ==
    /\ pc = "args4"
    /\ s \in SPoints
    /\ argv \in CompoundArgs
    /\ call = "" /\ net = NoPort /\ simp = NoPort /\ view = NoView
    /\ opA = NoPort /\ opB = NoPort
    /\ warned = FALSE
    /\ mat0 = NoMatrix /\ mat = NoMatrix /\ path = <<>> /\ divzero = FALSE
    /\ tpA = NoTwoPort /\ operand = NoTwoPort /\ port = 0 /\ tp = NoTwoPort

\* the constructor name(*argv) returned r.obj or raised
CalledCompound(name, r) ==
    /\ pc = "args4"
    /\ net' = r.obj
    /\ pc' = IF r.raised THEN "raised" ELSE "returned"
    /\ call' = name
    /\ UNCHANGED <<argv, s, mat0, mat, path, warned, divzero, opA, opB, simp,
                   view, tpA, operand, port, tp>>

NewXtal == CalledCompound("Xtal", Xtal_init(argv))
NewFerriteBead == CalledCompound("FerriteBead", FerriteBead_init(argv))

\* net.expand() for the compound net
ExpandCompound ==
    /\ pc = "returned"
    /\ simp' = Compound_expand(net)
    /\ pc' = "expanded"
    /\ UNCHANGED <<argv, s, mat0, mat, path, warned, divzero, opA, opB, call,
                   net, view, tpA, operand, port, tp>>

\* net.Z, net.Voc of the compound read next to the expanded network's
ReadCompound ==
    /\ pc = "expanded"
    /\ view' = [NoView EXCEPT !.Z = net.a, !.Voc = net.b]
    /\ pc' = "read"
    /\ UNCHANGED <<argv, s, mat0, mat, path, warned, divzero, opA, opB, call,
                   net, simp, tpA, operand, port, tp>>

NextCompound == NewXtal \/ NewFerriteBead \/ ExpandCompound \/ ReadCompound

SpecCompound == InitCompound /\ [][NextCompound]_vars

\* the impedance of two impedances in parallel
ZParallel(x, y) == RDiv(RMul(x, y), RAdd(x, y))

(***************************************************************************)
(* C25: Xtal(C0, R1, L1, C1) and FerriteBead(Rs, Rp, Cp, Lp) construct;    *)
(* expand() of the Xtal is R1 + L1 + C1 in parallel with C0, and expand()  *)
(* of the FerriteBead is Rs in series with Rp, Lp and Cp in parallel.      *)
(***************************************************************************)
C25_CompoundsExpand ==
    /\ pc # "raised"
    /\ (pc = "expanded" /\ call = "Xtal") =>
          /\ simp.cls = "Par" /\ Len(simp.args) = 2
          /\ simp.args[2] = C(argv[1], Zero)
          /\ OnePort_Z(simp.args[1])
                = RAdd(argv[2], RAdd(RMul(s, argv[3]),
                                     RDiv(One, RMul(s, argv[4]))))
    /\ (pc = "expanded" /\ call = "FerriteBead") =>
          /\ simp.cls = "Ser" /\ Len(simp.args) = 2
          /\ simp.args[1] = R(argv[1])
          /\ OnePort_Z(simp.args[2])
                = ZParallel(argv[2],
                            ZParallel(RMul(s, argv[4]),
                                      RDiv(One, RMul(s, argv[3]))))

(***************************************************************************)
(* Section constructors of AMatrix and BMatrix.                            *)
(***************************************************************************)
AMatrix_Zshunt(Zval) == Mat("A", One, Zero, RDiv(One, Zval), One)
BMatrix_Zshunt(Zval) == Mat("B", One, Zero, RNeg(RDiv(One, Zval)), One)

\* AMatrix.chain: self * OP
AMatrix_chain(x, OP) == MatMul(x, OP)

\* BMatrix.chain: TP * self
BMatrix_chain(x, TP) == MatMul(TP, x)

AMatrix_Lsection(Z1, Z2) ==
    AMatrix_chain(AMatrix_Zseries(Z1), AMatrix_Zshunt(Z2))
AMatrix_Tsection(Z1, Z2, Z3) ==
    AMatrix_chain(AMatrix_Lsection(Z1, Z2), AMatrix_Zseries(Z3))

\* Y = 1 / Z2; cls(1 + Y * Z1, -Z1, -Y, 1)
BMatrix_Lsection(Z1, Z2) ==
    Mat("B", RAdd(One, RMul(RDiv(One, Z2), Z1)), RNeg(Z1),
             RNeg(RDiv(One, Z2)), One)

\* Y = 1 / Z2; cls(1 + Y * Z1, -Z1 - Z3 * (1 + Y * Z1), -Y, 1 + Y * Z3)
BMatrix_Tsection(Z1, Z2, Z3) ==
    Mat("B", RAdd(One, RMul(RDiv(One, Z2), Z1)),
             RSub(RNeg(Z1), RMul(Z3, RAdd(One, RMul(RDiv(One, Z2), Z1)))),
             RNeg(RDiv(One, Z2)),
             RAdd(One, RMul(RDiv(One, Z2), Z3)))

\* the non-zero impedances handed to the section constructors
Impedances == Entries \ {Zero}

InitSection ==
    /\ pc = "args5"
    /\ s = Q(2)
    /\ argv \in {<<Z1, Z2, Z3>> : Z1 \in Impedances, Z2 \in Impedances,
                                  Z3 \in Impedances}
    /\ mat0 = NoMatrix /\ mat = NoMatrix /\ path = <<>>
    /\ warned = FALSE /\ divzero = FALSE
    /\ call = "" /\ net = NoPort /\ simp = NoPort /\ view = NoView
    /\ opA = NoPort /\ opB = NoPort
    /\ tpA = NoTwoPort /\ operand = NoTwoPort /\ port = 0 /\ tp = NoTwoPort

\* a class method of AMatrix or BMatrix returned the matrix m
Sectioned(name, m) ==
    /\ pc = "args5"
    /\ mat' = m
    /\ path' = <<name>>
    /\ pc' = "section"
    /\ UNCHANGED <<argv, s, mat0, warned, divzero, opA, opB, call, net, simp,
                   view, tpA, operand, port, tp>>

\* mat.chain(TP), or mat.B, returned the matrix m
Chained(first, name, m) ==
    /\ pc = "section" /\ path = <<first>>
    /\ mat0' = mat
    /\ mat' = m
    /\ path' = Append(path, name)
    /\ pc' = "chained"
    /\ UNCHANGED <<argv, s, warned, divzero, opA, opB, call, net, simp,
                   view, tpA, operand, port, tp>>

BZseries == Sectioned("BMatrix.Zseries", BMatrix_Zseries(argv[1]))
BLsection == Sectioned("BMatrix.Lsection", BMatrix_Lsection(argv[1], argv[2]))
BTsection ==
    Sectioned("BMatrix.Tsection", BMatrix_Tsection(argv[1], argv[2], argv[3]))
ALsection == Sectioned("AMatrix.Lsection", AMatrix_Lsection(argv[1], argv[2]))
ATsection ==
    Sectioned("AMatrix.Tsection", AMatrix_Tsection(argv[1], argv[2], argv[3]))

\* BMatrix.Zseries(Z1).chain(BMatrix.Zshunt(Z2))
ChainZshunt ==
    Chained("BMatrix.Zseries", "chain",
            BMatrix_chain(mat, BMatrix_Zshunt(argv[2])))
\* BMatrix.Lsection(Z1, Z2).chain(BMatrix.Zseries(Z3))
ChainZseries ==
    Chained("BMatrix.Lsection", "chain",
            BMatrix_chain(mat, BMatrix_Zseries(argv[3])))
\* AMatrix.Lsection(Z1, Z2).B and AMatrix.Tsection(Z1, Z2, Z3).B
ALsectionB == Chained("AMatrix.Lsection", "B", AMatrix_B(mat).M)
ATsectionB == Chained("AMatrix.Tsection", "B", AMatrix_B(mat).M)

NextSection ==
    \/ BZseries \/ BLsection \/ BTsection \/ ALsection \/ ATsection
    \/ ChainZshunt \/ ChainZseries \/ ALsectionB \/ ATsectionB

SpecSection == InitSection /\ [][NextSection]_vars

(***************************************************************************)
(* C26: for non-zero Z1, Z2, Z3 the closed form BMatrix.Lsection(Z1, Z2)   *)
(* equals BMatrix.Zseries(Z1).chain(BMatrix.Zshunt(Z2)), the closed form   *)
(* BMatrix.Tsection(Z1, Z2, Z3) equals                                     *)
(* BMatrix.Lsection(Z1, Z2).chain(BMatrix.Zseries(Z3)), and each equals    *)
(* the B form of AMatrix.Lsection / AMatrix.Tsection.                      *)
(***************************************************************************)
C26_SectionsAgree ==
    pc = "chained" =>
      /\ path = <<"BMatrix.Zseries", "chain">>
            => mat = BMatrix_Lsection(argv[1], argv[2])
      /\ path = <<"BMatrix.Lsection", "chain">>
            => mat = BMatrix_Tsection(argv[1], argv[2], argv[3])
      /\ path = <<"AMatrix.Lsection", "B">>
            => mat = BMatrix_Lsection(argv[1], argv[2])
      /\ path = <<"AMatrix.Tsection", "B">>
            => mat = BMatrix_Tsection(argv[1], argv[2], argv[3])

\* every entry of the stored matrix and of its B form is finite and non-zero
NonDegenerate(x) ==
    /\ det(x.M) # Zero
    /\ \A n \in 1..4 : IsFinite(x.M.e[n]) /\ x.M.e[n] # Zero
    /\ \A n \in 1..4 : IsFinite(TwoPort_B(x).e[n]) /\ TwoPort_B(x).e[n] # Zero

\* the six port-referred source parameters read from the two-port x
SourcesOf(x) ==
    <<TwoPort_I1y(x), TwoPort_I2y(x), TwoPort_V1z(x), TwoPort_V2z(x),
      TwoPort_V1h(x), TwoPort_I2h(x)>>

(***************************************************************************)
(* C27: for a non-degenerate model T of kind H, Y or Z, the sources        *)
(* (I1y, I2y), (V1z, V2z) and (V1h, I2h) read from T.Bmodel equal those    *)
(* read from T.                                                            *)
(***************************************************************************)
C27_BmodelKeepsSources ==
    (pc = "bmodel" /\ tpA.model \in {"H", "Y", "Z"} /\ NonDegenerate(tpA))
    => SourcesOf(tp) = SourcesOf(tpA)

\* TwoPort.isbilateral: self.B.det() == 1
TwoPort_isbilateral(x) == det(TwoPort_B(x)) = One

\* the B-matrix and the sources (V2b, I2b) of x are finite
DefinedB(x) ==
    /\ \A n \in 1..4 : IsFinite(TwoPort_B(x).e[n])
    /\ IsFinite(TwoPort_V2b(x)) /\ IsFinite(TwoPort_I2b(x))

\* Chain(a, Chain(b, c))
ChainRight(a, b, c) == Chain_init(<<a, Chain_init(<<b, c>>).obj>>).obj

\* a, b, c of the nested call Chain(Chain(a, b), c)
Chained3 == <<argv[1].args[1], argv[1].args[2], argv[2]>>

(***************************************************************************)
(* C28: for three two-ports a, b, c with defined B-models,                 *)
(* Chain(Chain(a, b), c) and Chain(a, Chain(b, c)) hold equal B-matrices   *)
(* and equal sources (V2b, I2b).                                           *)
(***************************************************************************)
C28_ChainAssociative ==
    (pc = "nested" /\ \A n \in 1..3 : DefinedB(Chained3[n]))
    => /\ tp.M = ChainRight(Chained3[1], Chained3[2], Chained3[3]).M
       /\ tp.v1 = ChainRight(Chained3[1], Chained3[2], Chained3[3]).v1
       /\ tp.v2 = ChainRight(Chained3[1], Chained3[2], Chained3[3]).v2

\* three different elements with sources, their matrices not commuting
C28_Witness ==
    /\ pc = "nested" /\ \A n \in 1..3 : DefinedB(Chained3[n])
    /\ Chained3[1].cls = "Series" /\ Chained3[2].cls = "Shunt"
    /\ Chained3[3].cls = "IdealTransformer"
    /\ Chained3[1].v1 # Zero /\ Chained3[2].v2 # Zero
    /\ tp.v1 # Zero /\ tp.v2 # Zero

\* the calls that build a two-port from Series and Shunt elements alone
ElementCalls == {"Series", "Shunt", "LSection", "TSection", "PiSection",
                 "Ladder"}
\* the two-port classes that are bilateral by construction
Elements == {"Series", "Shunt", "IdealTransformer"}

\* tp was built from bilateral elements by chaining alone
FromElements ==
    \/ pc = "returned" /\ call \in ElementCalls
    \/ /\ pc = "returned" /\ call = "Chain"
       /\ \A n \in 1..Len(argv) : argv[n].cls \in Elements
    \/ /\ pc = "nested"
       /\ \A n \in 1..3 : Chained3[n].cls \in Elements

(***************************************************************************)
(* C29 as stated: Series(OP), Shunt(OP) and IdealTransformer(alpha) are    *)
(* bilateral, det(B) = 1, and so is every two-port chained from them:      *)
(* every Chain of them, LSection, TSection, PiSection and Ladder.          *)
(***************************************************************************)
C29_AlwaysBilateral ==
    /\ tpA.cls \in Elements => TwoPort_isbilateral(tpA)
    /\ FromElements => TwoPort_isbilateral(tp)

(***************************************************************************)
(* C29 amended: Series(OP), Shunt(OP) and IdealTransformer(alpha) whose    *)
(* B-matrix has finite entries are bilateral, det(B) = 1, and so is every  *)
(* two-port with a finite B-matrix chained from them.                      *)
(***************************************************************************)
C29_FiniteBilateral ==
    /\ (tpA.cls \in Elements /\ \A n \in 1..4 : IsFinite(tpA.M.e[n]))
            => TwoPort_isbilateral(tpA)
    /\ (FromElements /\ \A n \in 1..4 : IsFinite(tp.M.e[n]))
            => TwoPort_isbilateral(tp)

C29_Witness ==
    /\ pc = "nested" /\ FromElements
    /\ Chained3[1].cls = "IdealTransformer" /\ Chained3[2].cls = "Series"
    /\ Chained3[3].cls = "Shunt"
    /\ \A n \in 1..4 : IsFinite(tp.M.e[n]) /\ tp.M.e[n] # Zero
    /\ TwoPort_isbilateral(tp)

(***************************************************************************)
(* Repeated simplification of nests of R, L, C and G.                      *)
(***************************************************************************)
Passive == {R(One), L(One, One), C(One, One), G(One)}

\* the nests of Ser / Par over the primitives in A, two and three levels deep
Nest1(A) == Composites(A \X A)
Nest2Chain(A) == Composites((Nest1(A) \X A) \cup (A \X Nest1(A)))
Nest2(A) ==
    Nest2Chain(A)
    \cup Composites((A \X Nest1(A) \X A) \cup (Nest1(A) \X Nest1(A)))
Nest3(A) == Composites((Nest2Chain(A) \X A) \cup (A \X Nest2Chain(A)))

InitPassive ==
    /\ pc = "built"
    /\ s \in SPoints
    /\ net \in Nest2(Passive) \cup Nest3(Passive)
    /\ call = net.cls
    /\ opA = NoPort /\ opB = NoPort /\ simp = NoPort /\ view = NoView
    /\ warned = FALSE
    /\ mat0 = NoMatrix /\ mat = NoMatrix /\ path = <<>> /\ divzero = FALSE
    /\ tpA = NoTwoPort /\ operand = NoTwoPort /\ port = 0 /\ tp = NoTwoPort
    /\ argv = <<>>

\* simp.simplify() for the composite simp a first simplify() returned; net
\* names the receiver of the call from then on
Again ==
    /\ pc = "simplified" /\ simp.cls \in ParSer
    /\ net' = simp
    /\ simp' = simplify(simp)
    /\ pc' = IF simp' = ValueError THEN "again_raised" ELSE "resimplified"
    /\ call' = simp.cls
    /\ UNCHANGED <<argv, s, mat0, mat, path, warned, divzero, opA, opB, view,
                   tpA, operand, port, tp>>

NextPassive == Simplify \/ Again

SpecPassive == InitPassive /\ [][NextPassive]_vars

\* no two non-composite children of x, at any level, have the same class
RECURSIVE NoSameTypeSiblings(_)
NoSameTypeSiblings(x) ==
    x.cls \in ParSer =>
      /\ \A p \in Pairs(x.args) :
            (x.args[p[1]].cls \notin ParSer /\ x.args[p[2]].cls \notin ParSer)
            => x.args[p[1]].cls # x.args[p[2]].cls
      /\ \A n \in 1..Len(x.args) : NoSameTypeSiblings(x.args[n])

(***************************************************************************)
(* C30: for a nest of Ser / Par over R, L, C and G whose simplify() raises *)
(* nothing, the result holds no two non-composite siblings of the same     *)
(* class at any level, and when it is a composite, simplifying it again    *)
(* returns the same tree: same operators, children, order and values.      *)
(***************************************************************************)
C30_SimplifyIdempotent ==
    /\ pc = "simplified" => NoSameTypeSiblings(simp)
    /\ pc \in {"resimplified", "again_raised"} => simp = net

\* a second simplify() of a composite that the first one had reduced
C30_Witness ==
    /\ pc = "resimplified" /\ simp = net
    /\ simp.cls = "Ser" /\ Len(simp.args) = 2
    /\ simp.args[1].cls = "R" /\ simp.args[1].a = Q(2)
    /\ simp.args[2].cls = "Par"

====
